---- MODULE Spec2Model ----
(***************************************************************************)
(* Model of the transcript-scoring heuristic of Interview-Labs-Render:     *)
(* analyzeRealTranscription (src/server.js), analyzeRealSpeech             *)
(* (src/api/analyze.js) and the POST /api/analyze/video endpoint that      *)
(* calls the former (specification Spec), and of the questions handlers    *)
(* with their fallback templates (specification SpecQuestions), of the     *)
(* promise of the Whisper transcribers (SpecWhisper, FairSpecWhisper), of  *)
(* the polling loop of getRealTranscription (SpecPolling) and of the file  *)
(* handling of POST /api/analyze/video (SpecVideo).                        *)
(*                                                                         *)
(* A text is a sequence of items.  An item is one lexeme of the            *)
(* transcript: a whitespace character, a punctuation character, a run of   *)
(* digits or a word.  Ratings are held in hundredths (4 is 400, 0.5 is 50) *)
(* and segment times in milliseconds, so that every quantity is an         *)
(* integer.                                                                *)
(***************************************************************************)
EXTENDS Integers, Sequences, FiniteSets, TLC

VARIABLES pc, variant, field, data, transcription, features, analysis, response,
          promise, child, timer, attempts, uploaded, sent

\* the promise of a transcriber, its child process and its timer
whisperVars == <<promise, child, timer>>

\* the number of status requests of the polling loop
pollVars == <<attempts>>

\* the uploaded file and the responses sent for the request
videoVars == <<uploaded, sent>>

vars == <<pc, variant, field, data, transcription, features, analysis, response,
          whisperVars, pollVars, videoVars>>

None == "none"

-----------------------------------------------------------------------------
(* Lexemes                                                                 *)

SP == " "
TAB == "\t"
PCT == "%"
COMMA == ","

\* \s of the regular expressions: the space and the other whitespace characters
WhiteSpace == {SP, TAB}

\* runs of \d
Digits == {"50"}

\* words of the transcript; in the upper-case ones /i and toLowerCase matter
Words == {"java", "Java", "api", "led", "um", "uh", "like", "how", "fox", "years"}

\* \w of the regular expressions: letters and digits
WordChar(c) == c \in Words \cup Digits

\* String.prototype.toLowerCase on one lexeme
LowerItem(c) ==
    CASE c = "Java" -> "java"
      [] c = "Senior" -> "senior"
      [] c = "JAVA" -> "java"
      [] c = "Intern" -> "intern"
      [] OTHER -> c

\* toLowerCase left out
ToLowerCaseLeftOut(s) == s

\* String.prototype.toLowerCase
ToLowerCase(s) == [i \in 1..Len(s) |-> LowerItem(s[i])]

\* the lexemes of which key is a substring
SuperStrings(key) ==
    CASE key = "java" -> {"java", "javascript"}
      [] key = "intern" -> {"intern", "internal"}
      [] key = "senior" -> {"senior"}
      [] OTHER -> {key}

\* String.prototype.includes(key), key one lowercase word
Includes(s, key) == \E i \in 1..Len(s) : s[i] \in SuperStrings(key)

-----------------------------------------------------------------------------
(* Regular expressions of the analyser, on lexemes                         *)

\* the lexeme at position i, or None before the start and after the end
At(text, i) == IF i \in 1..Len(text) THEN text[i] ELSE None

\* the single-word alternatives of the technical-term expression
TechnicalVocabulary ==
    {"javascript", "react", "node", "python", "java", "database", "api", "system",
     "software", "code", "programming", "development", "framework", "library",
     "algorithm", "data", "server", "frontend", "backend", "fullstack", "git",
     "docker", "aws", "cloud", "microservices", "testing", "debugging", "deployment",
     "scalability", "performance", "security", "architecture", "html", "css",
     "typescript", "angular", "vue", "spring", "hibernate", "mysql", "postgresql",
     "mongodb", "redis", "kubernetes", "devops", "ci", "cd", "agile", "scrum"}

\* the alternatives of the confidence-word expression
ConfidenceVocabulary ==
    {"successfully", "achieved", "led", "implemented", "improved", "optimized",
     "designed", "developed", "managed", "created", "built", "delivered", "solved",
     "experience", "expertise", "proficient", "skilled", "accomplished", "responsible",
     "contributed", "collaborated", "completed", "established", "enhanced",
     "streamlined", "automated", "integrated", "architected"}

\* the single-word alternatives of the filler expression ("you know", "sort of" and
\* "kind of" are made of words that are no lexemes of the model)
FillerVocabulary ==
    {"um", "uh", "like", "actually", "basically", "well", "so", "right", "okay",
     "yeah", "hmm", "er", "ah"}

\* the single-word alternatives of the question-word expression
QuestionVocabulary == {"what", "how", "why", "when", "where", "which", "who"}

\* the units of the metric expression
MetricUnits ==
    {"percent", "times", "years", "months", "weeks", "days", "users", "customers",
     "projects", "team", "members", "million", "thousand", "hours", "dollars",
     "revenue", "growth", "reduction", "increase", "decrease", "improvement"}

\* (text.match(/\b(w1|w2|...)\b/gi) || []).length: a lexeme of the vocabulary,
\* whatever its case, with a word boundary on both sides
VocabularyMatches(text, vocabulary) ==
    Cardinality({i \in 1..Len(text) :
        /\ LowerItem(text[i]) \in vocabulary
        /\ ~WordChar(At(text, i - 1))
        /\ ~WordChar(At(text, i + 1))})

\* the last lexeme of the run of digits that starts at i (\d+ is greedy)
RECURSIVE DigitsEnd(_, _)
DigitsEnd(text, i) ==
    IF At(text, i + 1) \in Digits THEN DigitsEnd(text, i + 1) ELSE i

\* the first position from k on that holds no whitespace (\s*)
RECURSIVE SkipWhiteSpace(_, _)
SkipWhiteSpace(text, k) ==
    IF At(text, k) \in WhiteSpace THEN SkipWhiteSpace(text, k + 1) ELSE k

\* /\b(\d+%|\d+\s*(percent|times|...))\b/gi matches from position i
MetricMatchAt(text, i) ==
    /\ text[i] \in Digits
    /\ ~WordChar(At(text, i - 1))
    /\ LET j == DigitsEnd(text, i)
           k == SkipWhiteSpace(text, j + 1)
       IN  \/ At(text, j + 1) = PCT /\ WordChar(At(text, j + 2))
           \/ LowerItem(At(text, k)) \in MetricUnits /\ ~WordChar(At(text, k + 1))

MetricMatches(text) == Cardinality({i \in 1..Len(text) : MetricMatchAt(text, i)})

\* text.split(' ').length
SplitLength(text) == Cardinality({i \in 1..Len(text) : text[i] = SP}) + 1

\* the local variables of the analyser
Features(text) ==
    [wordCount |-> SplitLength(text),
     technicalTerms |-> VocabularyMatches(text, TechnicalVocabulary),
     confidenceWords |-> VocabularyMatches(text, ConfidenceVocabulary),
     fillerWords |-> VocabularyMatches(text, FillerVocabulary),
     specificMetrics |-> MetricMatches(text),
     questionWords |-> VocabularyMatches(text, QuestionVocabulary)]

-----------------------------------------------------------------------------
(* Numbers and strings                                                     *)

DigitChars == <<"0", "1", "2", "3", "4", "5", "6", "7", "8", "9">>

\* Number.prototype.toString of a non-negative integer, one character per element
RECURSIVE NatToString(_)
NatToString(n) ==
    IF n < 10 THEN <<DigitChars[n + 1]>>
    ELSE NatToString(n \div 10) \o <<DigitChars[(n % 10) + 1]>>

\* Number.prototype.toString of an integer
IntToString(n) == IF n < 0 THEN <<"-">> \o NatToString(-n) ELSE NatToString(n)

\* String(NaN)
NaNString == <<"N", "a", "N">>

\* toString of a number held in hundredths that is a multiple of 0.5
HundredthsToString(h) ==
    IF h % 100 = 0 THEN NatToString(h \div 100)
    ELSE NatToString(h \div 100) \o <<".">> \o <<DigitChars[((h % 100) \div 10) + 1]>>

\* String.prototype.padStart(2, '0')
PadStartLeftOut(s) == s

PadStart2(s) == IF Len(s) < 2 THEN <<"0">> \o s ELSE s

\* Math.round(num / den) for den > 0: the nearest integer, halves going up
MathRound(num, den) == (2 * num + den) \div (2 * den)

Min(a, b) == IF a < b THEN a ELSE b
Max(a, b) == IF a > b THEN a ELSE b

\* the remainder of JavaScript's %, which has the sign of the dividend
JsRem(a, b) == IF a >= 0 THEN a % b ELSE -((-a) % b)

-----------------------------------------------------------------------------
(* The analyser                                                            *)

\* a thrown TypeError, as a result
Raised == [raised |-> TRUE, rating |-> 0, mistakes |-> <<>>, tips |-> <<>>, summary |-> <<>>]

Result(rating, mistakes, tips, summary) ==
    [raised |-> FALSE, rating |-> rating, mistakes |-> mistakes, tips |-> tips,
     summary |-> summary]

\* the slice left out
SliceLeftOut(s, n) == s

\* the last n elements in place of the first n: slice(-n)
SliceFromEnd(s, n) == SubSeq(s, Max(1, Len(s) - n + 1), Len(s))

\* Array.prototype.slice(0, n)
Slice(s, n) == SubSeq(s, 1, Min(n, Len(s)))

\* the seconds not reduced to the current minute
FormatTimestampWholeSeconds(start) ==
    LET minutes == start \div 60000
        seconds == start \div 1000
    IN  IntToString(minutes) \o <<":">> \o PadStart2(IntToString(seconds))

\* `${minutes}:${seconds.toString().padStart(2, '0')}` of a start time in milliseconds
FormatTimestamp(start) ==
    LET minutes == start \div 60000
        seconds == JsRem(start, 60000) \div 1000
    IN  IntToString(minutes) \o <<":">> \o PadStart2(IntToString(seconds))

\* the fallback of findTimestampForIssue at the start of the recording
findTimestampForIssueFromZero(segments) ==
    IF Len(segments) = 0 THEN <<"0", ":", "0", "0">>
    ELSE LET midPoint == Len(segments) \div 2
             segment == segments[midPoint + 1]
         IN  IF segment.hasStart THEN FormatTimestamp(segment.start)
             ELSE <<"0", ":", "0", "0">>

\* findTimestampForIssue of server.js
findTimestampForIssue(segments) ==
    IF Len(segments) = 0 THEN <<"1", ":", "1", "5">>
    ELSE LET midPoint == Len(segments) \div 2
             segment == segments[midPoint + 1]
         IN  IF segment.hasStart THEN FormatTimestamp(segment.start)
             ELSE <<"1", ":", "1", "5">>

\* findFillerTimestamp of api/analyze.js: a start that is undefined gives NaN:NaN
findFillerTimestamp(segments) ==
    IF Len(segments) = 0 THEN <<"1", ":", "1", "5">>
    ELSE LET midPoint == Len(segments) \div 2
             segment == segments[midPoint + 1]
         IN  IF segment.hasStart THEN FormatTimestamp(segment.start)
             ELSE NaNString \o <<":">> \o NaNString

\* the bonus for technical terms under the condition of the terminology mistake
RawRatingFewTermsRewarded(f, fld, text) ==
    LET r0 == 400
        r1 == r0 + (IF f.wordCount > 50 THEN 100 ELSE 0)
        r2 == r1 + (IF f.wordCount > 100 THEN 50 ELSE 0)
        r3 == r2 + (IF f.technicalTerms < 2 THEN 100 ELSE 0)
        r4 == r3 + (IF f.technicalTerms > 5 THEN 50 ELSE 0)
        r5 == r4 + (IF f.confidenceWords > 2 THEN 100 ELSE 0)
        r6 == r5 + (IF f.confidenceWords > 4 THEN 50 ELSE 0)
        r7 == r6 + (IF f.specificMetrics > 0 THEN 100 ELSE 0)
        r8 == r7 + (IF f.specificMetrics > 2 THEN 50 ELSE 0)
        r9 == r8 + (IF 20 * f.fillerWords < f.wordCount THEN 50 ELSE 0)
        r10 == r9 + (IF f.questionWords > 0 THEN 50 ELSE 0)
        fieldLower == ToLowerCase(fld)
        r11 == r10 + (IF Includes(fieldLower, "senior") /\ f.technicalTerms > 4
                      THEN 50 ELSE 0)
        r12 == r11 + (IF Includes(fieldLower, "intern") /\ f.confidenceWords > 1
                      THEN 50 ELSE 0)
        r13 == r12 + (IF Includes(fieldLower, "java") /\ Includes(ToLowerCase(text), "java")
                      THEN 50 ELSE 0)
    IN  r13

\* the rating of the general branch started at 3 in place of 4
RawRatingFromThree(f, fld, text) ==
    LET r0 == 300
        r1 == r0 + (IF f.wordCount > 50 THEN 100 ELSE 0)
        r2 == r1 + (IF f.wordCount > 100 THEN 50 ELSE 0)
        r3 == r2 + (IF f.technicalTerms > 2 THEN 100 ELSE 0)
        r4 == r3 + (IF f.technicalTerms > 5 THEN 50 ELSE 0)
        r5 == r4 + (IF f.confidenceWords > 2 THEN 100 ELSE 0)
        r6 == r5 + (IF f.confidenceWords > 4 THEN 50 ELSE 0)
        r7 == r6 + (IF f.specificMetrics > 0 THEN 100 ELSE 0)
        r8 == r7 + (IF f.specificMetrics > 2 THEN 50 ELSE 0)
        r9 == r8 + (IF 20 * f.fillerWords < f.wordCount THEN 50 ELSE 0)
        r10 == r9 + (IF f.questionWords > 0 THEN 50 ELSE 0)
        fieldLower == ToLowerCase(fld)
        r11 == r10 + (IF Includes(fieldLower, "senior") /\ f.technicalTerms > 4
                      THEN 50 ELSE 0)
        r12 == r11 + (IF Includes(fieldLower, "intern") /\ f.confidenceWords > 1
                      THEN 50 ELSE 0)
        r13 == r12 + (IF Includes(fieldLower, "java") /\ Includes(ToLowerCase(text), "java")
                      THEN 50 ELSE 0)
    IN  r13

\* the rating of the general branch before it is rounded and limited, in hundredths
RawRating(f, fld, text) ==
    LET r0 == 400
        r1 == r0 + (IF f.wordCount > 50 THEN 100 ELSE 0)
        r2 == r1 + (IF f.wordCount > 100 THEN 50 ELSE 0)
        r3 == r2 + (IF f.technicalTerms > 2 THEN 100 ELSE 0)
        r4 == r3 + (IF f.technicalTerms > 5 THEN 50 ELSE 0)
        r5 == r4 + (IF f.confidenceWords > 2 THEN 100 ELSE 0)
        r6 == r5 + (IF f.confidenceWords > 4 THEN 50 ELSE 0)
        r7 == r6 + (IF f.specificMetrics > 0 THEN 100 ELSE 0)
        r8 == r7 + (IF f.specificMetrics > 2 THEN 50 ELSE 0)
        r9 == r8 + (IF 20 * f.fillerWords < f.wordCount THEN 50 ELSE 0)
        r10 == r9 + (IF f.questionWords > 0 THEN 50 ELSE 0)
        fieldLower == ToLowerCase(fld)
        r11 == r10 + (IF Includes(fieldLower, "senior") /\ f.technicalTerms > 4
                      THEN 50 ELSE 0)
        r12 == r11 + (IF Includes(fieldLower, "intern") /\ f.confidenceWords > 1
                      THEN 50 ELSE 0)
        r13 == r12 + (IF Includes(fieldLower, "java") /\ Includes(ToLowerCase(text), "java")
                      THEN 50 ELSE 0)
    IN  r13

\* the upper limit left out
RoundAndLimitNoCeiling(rating) == Max(100, MathRound(2 * rating, 100) * 50)

\* the upper limit at 10, the top of the scale the summary prints
RoundAndLimitAtTen(rating) == Min(1000, Max(100, MathRound(2 * rating, 100) * 50))

\* rounded to whole numbers: Math.round(rating) in place of Math.round(rating * 2) / 2
RoundAndLimitWholeNumbers(rating) == Min(900, Max(100, MathRound(rating, 100) * 100))

\* Math.min(9, Math.max(1, Math.round(rating * 2) / 2)), in hundredths
RoundAndLimit(rating) == Min(900, Max(100, MathRound(2 * rating, 100) * 50))

\* the rating of the general branch, in hundredths
Rating(f, fld, text) == RoundAndLimit(RawRating(f, fld, text))

\* the pairs (fillerWords, wordCount), wordCount below 160, whose exact percentage ends
\* in .5 and whose double-precision value falls just below it: (23 / 40) * 100 is
\* 57.49999999999999
TiesBelowHalf == {<<23, 40>>, <<46, 80>>, <<69, 120>>}

\* Math.round((fillerWords / wordCount) * 100) in double precision
FillerPercent(fillerWords, wordCount) ==
    IF <<fillerWords, wordCount>> \in TiesBelowHalf
    THEN MathRound(100 * fillerWords, wordCount) - 1
    ELSE MathRound(100 * fillerWords, wordCount)

\* the filler mistake wherever the praise for fluent speech is not earned
FillerMistakeAboveTwentyFifth(f) == 25 * f.fillerWords > f.wordCount

\* `fillerWords > wordCount / 15`, the condition of the filler mistake
FillerMistake(f) == 15 * f.fillerWords > f.wordCount

\* the mistakes of the general branch before the slice; fillerTimestamp is the timestamp
\* the variant's helper gives
Mistakes(f, fld, fillerTimestamp) ==
    (IF FillerMistake(f)
     THEN <<[timestamp |-> fillerTimestamp,
             text |-> <<"Reduce filler words (">>
                      \o IntToString(FillerPercent(f.fillerWords, f.wordCount))
                      \o <<"% of speech) - practice speaking more deliberately">>]>>
     ELSE <<>>)
    \o (IF f.specificMetrics = 0 /\ f.wordCount > 30
        THEN <<[timestamp |-> <<"1", ":", "3", "0">>,
                text |-> <<"Include specific metrics and quantifiable achievements in your examples">>]>>
        ELSE <<>>)
    \o (IF f.technicalTerms < 2 /\ f.wordCount > 30
        THEN <<[timestamp |-> <<"2", ":", "0", "0">>,
                text |-> <<"Use more ">> \o fld
                         \o <<"-specific technical terminology to demonstrate expertise">>]>>
        ELSE <<>>)
    \o (IF f.confidenceWords < 2 /\ f.wordCount > 40
        THEN <<[timestamp |-> <<"1", ":", "4", "5">>,
                text |-> <<"Use more confident, achievement-oriented language when describing your experience">>]>>
        ELSE <<>>)
    \o (IF f.wordCount < 40
        THEN <<[timestamp |-> <<"0", ":", "3", "0">>,
                text |-> <<"Provide more comprehensive responses with detailed examples and context">>]>>
        ELSE <<>>)

\* the strong-performance sentence only above 7
ClosingAboveSeven(rating, strong, good, focus) ==
    IF rating > 700 THEN strong ELSE IF rating >= 500 THEN good ELSE focus

\* the closing sentence of the summary
Closing(rating, strong, good, focus) ==
    IF rating >= 700 THEN strong ELSE IF rating >= 500 THEN good ELSE focus

\* `wordCount < 5`: no meaningful content
NoMeaningfulContent(f) == f.wordCount < 5

\* the threshold of the very brief response at 10 words
VeryBriefBelowTen(f) == f.wordCount < 10

\* `wordCount < 20`: a very brief response
VeryBrief(f) == f.wordCount < 20

\* analyzeRealTranscription of server.js; f holds its local variables
analyzeRealTranscriptionWith(f, tr, fld) ==
    IF NoMeaningfulContent(f) THEN
        Result(0,
               <<[timestamp |-> <<"0", ":", "0", "5">>,
                  text |-> <<"No meaningful speech detected - ensure microphone is working and speak clearly">>]>>,
               <<<<"Check microphone permissions in your browser">>,
                 <<"Speak directly into the microphone during recording">>,
                 <<"Record in a quiet environment without background noise">>,
                 <<"Ensure you are actually speaking during the recording">>>>,
               <<"No speech content detected for analysis. Please record again with clear audio.">>)
    ELSE IF VeryBrief(f) THEN
        Result(200,
               <<[timestamp |-> <<"0", ":", "1", "0">>,
                  text |-> <<"Response too brief - provide more detailed answers with specific examples">>]>>,
               <<<<"Elaborate on your experience with concrete examples">>,
                 <<"Use the STAR method (Situation, Task, Action, Result)">>,
                 <<"Aim for 1-2 minutes per response">>,
                 <<"Include specific technologies and metrics in your answers">>>>,
               <<"Very brief response detected (">> \o IntToString(f.wordCount)
                   \o <<" words). Expand your answers for better evaluation.">>)
    ELSE
        LET rating == Rating(f, fld, tr.text)
            mistakes == Mistakes(f, fld, findTimestampForIssue(tr.segments))
            tips ==
                <<<<"Real speech analysis: ">> \o IntToString(f.wordCount)
                      \o <<" words analyzed from your actual response">>,
                  <<"Content includes ">> \o IntToString(f.technicalTerms)
                      \o <<" technical terms and ">> \o IntToString(f.confidenceWords)
                      \o <<" confidence indicators">>,
                  IF f.technicalTerms > 3
                  THEN <<"Excellent technical vocabulary usage detected">>
                  ELSE <<"Include more ">> \o fld
                           \o <<"-specific technical concepts and terminology">>,
                  IF f.confidenceWords > 2
                  THEN <<"Strong confident communication style observed">>
                  ELSE <<"Practice using more achievement-focused language">>,
                  IF f.specificMetrics > 0
                  THEN <<"Good use of quantifiable results in your response">>
                  ELSE <<"Always include specific numbers and measurable outcomes">>,
                  IF 25 * f.fillerWords < f.wordCount
                  THEN <<"Clear, fluent speech patterns detected">>
                  ELSE <<"Practice reducing filler words for more professional delivery">>>>
        IN  Result(rating, Slice(mistakes, 3), Slice(tips, 5),
                   <<"Real speech analysis of your ">> \o IntToString(f.wordCount)
                   \o <<"-word response. Technical depth: ">> \o IntToString(f.technicalTerms)
                   \o <<" terms, Confidence level: ">> \o IntToString(f.confidenceWords)
                   \o <<" indicators, Speech clarity: ">> \o IntToString(f.fillerWords)
                   \o <<" filler words. Overall rating: ">> \o HundredthsToString(rating)
                   \o <<"/10. ">>
                   \o Closing(rating,
                        <<"Strong interview performance with clear technical communication based on your actual speech content.">>,
                        <<"Good foundation with specific areas for improvement identified from your real response.">>,
                        <<"Focus on the recommended areas to significantly enhance your interview performance.">>))

\* `transcription.text || ''`
TextOrEmpty(tr) == IF tr.hasText THEN tr.text ELSE <<>>

analyzeRealTranscription(tr, fld) ==
    LET text == TextOrEmpty(tr)
    IN  analyzeRealTranscriptionWith(Features(text),
            [tr EXCEPT !.text = text, !.hasText = TRUE], fld)

\* analyzeRealSpeech of api/analyze.js; f holds its local variables
analyzeRealSpeechWith(f, tr, fld) ==
    IF NoMeaningfulContent(f) THEN
        Result(0,
               <<[timestamp |-> <<"0", ":", "0", "5">>,
                  text |-> <<"No meaningful speech detected - please speak clearly into the microphone">>]>>,
               <<<<"Ensure you are actually speaking during the recording">>,
                 <<"Check microphone permissions and audio levels">>,
                 <<"Speak clearly and at normal volume">>,
                 <<"Record in a quiet environment">>>>,
               <<"No speech content detected for analysis. Please record again with clear audio.">>)
    ELSE IF VeryBrief(f) THEN
        Result(200,
               <<[timestamp |-> <<"0", ":", "1", "0">>,
                  text |-> <<"Response too brief - provide more detailed answers with specific examples">>]>>,
               <<<<"Elaborate on your experience with concrete examples">>,
                 <<"Use the STAR method (Situation, Task, Action, Result)">>,
                 <<"Aim for 1-2 minutes per response">>,
                 <<"Include specific technologies and metrics">>>>,
               <<"Brief response detected (">> \o IntToString(f.wordCount)
                   \o <<" words). Expand your answers for better evaluation.">>)
    ELSE
        LET rating == Rating(f, fld, tr.text)
            mistakes == Mistakes(f, fld, findFillerTimestamp(tr.segments))
            tips ==
                <<<<"Real speech analysis: ">> \o IntToString(f.wordCount)
                      \o <<" words, ">> \o IntToString(f.technicalTerms)
                      \o <<" technical terms, ">> \o IntToString(f.confidenceWords)
                      \o <<" confidence indicators">>,
                  IF f.technicalTerms > 3
                  THEN <<"Excellent technical vocabulary usage">>
                  ELSE <<"Include more ">> \o fld
                           \o <<"-specific technical concepts and terminology">>,
                  IF f.confidenceWords > 2
                  THEN <<"Strong confident communication style detected">>
                  ELSE <<"Practice using more achievement-focused language">>,
                  IF f.specificMetrics > 0
                  THEN <<"Good use of quantifiable results">>
                  ELSE <<"Always include specific numbers and measurable outcomes">>,
                  IF 25 * f.fillerWords < f.wordCount
                  THEN <<"Clear, fluent speech patterns">>
                  ELSE <<"Practice reducing filler words for more professional delivery">>>>
        IN  Result(rating, Slice(mistakes, 3), Slice(tips, 5),
                   <<"Real speech transcription analysis: ">> \o IntToString(f.wordCount)
                   \o <<" words analyzed. Technical terms: ">> \o IntToString(f.technicalTerms)
                   \o <<", Confidence indicators: ">> \o IntToString(f.confidenceWords)
                   \o <<", Filler words: ">> \o IntToString(f.fillerWords)
                   \o <<". Rating: ">> \o HundredthsToString(rating) \o <<"/10. ">>
                   \o Closing(rating,
                        <<"Strong interview performance with clear technical communication.">>,
                        <<"Good foundation with specific areas for improvement based on actual speech content.">>,
                        <<"Focus on the identified areas to significantly enhance interview performance.">>))

\* transcription.text is read as it is: text.split throws when it is undefined
analyzeRealSpeech(tr, fld) ==
    IF ~tr.hasText THEN Raised
    ELSE analyzeRealSpeechWith(Features(tr.text), tr, fld)

-----------------------------------------------------------------------------
(* The transcriber's output                                                *)

\* the time a speaker takes to say one lexeme, in milliseconds
MsPerLexeme == 400

\* n times the phrase w, separated by single spaces
Rep(w, n) ==
    LET period == Len(w) + 1
    IN  [i \in 1..(n * period - 1) |-> IF i % period = 0 THEN SP ELSE w[i % period]]

\* segments.map(s => s.text).join(' ')
RECURSIVE JoinTexts(_)
JoinTexts(segments) ==
    IF Len(segments) = 0 THEN <<>>
    ELSE IF Len(segments) = 1 THEN segments[1].text
    ELSE segments[1].text \o <<SP>> \o JoinTexts(Tail(segments))

\* the segments that speak the given texts one after the other, MsPerLexeme
\* milliseconds a lexeme, the first one starting at time `from`
RECURSIVE Spoken(_, _)
Spoken(texts, from) ==
    IF Len(texts) = 0 THEN <<>>
    ELSE LET until == from + MsPerLexeme * Len(texts[1])
         IN  <<[hasStart |-> TRUE, start |-> from, end |-> until, text |-> texts[1]]>>
             \o Spoken(Tail(texts), until)

\* the output of a transcriber that heard the given texts
Heard(texts) ==
    LET segments == Spoken(texts, 0)
    IN  [exitCode |-> 0, hasText |-> TRUE, text |-> JoinTexts(segments),
         hasSegments |-> TRUE, segments |-> segments]

\* a transcript made of one segment for each kind of phrase that occurs in it
Composed(nPad, tech, nTech, nConf, nFill, metric, nMetric, nQuestion) ==
    LET Opt(w, n) == IF n = 0 THEN <<>> ELSE <<Rep(w, n)>>
    IN  Heard(Opt(<<"fox">>, nPad) \o Opt(tech, nTech) \o Opt(<<"led">>, nConf)
              \o Opt(<<"um">>, nFill) \o Opt(metric, nMetric) \o Opt(<<"how">>, nQuestion))

MaxPad == 96
MaxTech == 6
MaxConf == 5
MaxFill == 8
MaxMetric == 3
MaxLen == 4

PadCounts == {0, 14, 25, 36, 46, MaxPad}
ConfCounts == {0, 2, 3, MaxConf}
FillCounts == {0, 3, MaxFill}

\* a technical term and the number of times it is said
TechChoices ==
    {<<<<"api">>, n>> : n \in {0, 1, 2, 3, 5, MaxTech}}
    \cup {<<<<"Java">>, n>> : n \in {2, 5}}

\* a metric and the number of times it is said
MetricChoices ==
    {<<<<"50", SP, "years">>, n>> : n \in {0, 1, MaxMetric}} \cup {<<<<"50", PCT>>, 1>>}

ComposedData ==
    {Composed(nPad, tech[1], tech[2], nConf, nFill, metric[1], metric[2], nQuestion) :
        nPad \in PadCounts, tech \in TechChoices, nConf \in ConfCounts,
        nFill \in FillCounts, metric \in MetricChoices, nQuestion \in {0, 1}}

\* the lexemes of the short transcripts
ShortItems == {SP, TAB, "um", "fox"}

\* every text of at most n lexemes
RECURSIVE TextsUpTo(_)
TextsUpTo(n) ==
    IF n = 0 THEN {<<>>}
    ELSE LET shorter == TextsUpTo(n - 1)
         IN  shorter \cup {Append(t, c) : t \in {u \in shorter : Len(u) = n - 1}, c \in ShortItems}

ShortData == {Heard(<<t>>) : t \in TextsUpTo(MaxLen)}

\* 60 words: 6 technical terms, 5 confidence words, the metric 50%, no filler word
\* and the word java
ScenarioC == Composed(48, <<"java">>, 6, 5, 0, <<"50", PCT>>, 1, 0)

\* 40 words of which 23 are filler words: 57.5 per cent
ScenarioTie == Composed(17, <<"api">>, 0, 0, 23, <<"50", SP, "years">>, 0, 0)

\* 20 times "um,uh,like": 19 spaces, so 20 words, and 60 filler words
ScenarioCommas == Heard(<<Rep(<<"um", COMMA, "uh", COMMA, "like">>, 20)>>)

\* outputs that lack a part: no segment list, neither text nor segment list, and a
\* segment list whose entries have no start time
PartialData ==
    LET full == Composed(20, <<"api">>, 2, 0, MaxFill, <<"50", PCT>>, 0, 0)
    IN  {[full EXCEPT !.hasSegments = FALSE, !.segments = <<>>],
         [full EXCEPT !.hasSegments = FALSE, !.segments = <<>>, !.hasText = FALSE,
                      !.text = <<>>],
         [full EXCEPT !.segments =
             [i \in 1..Len(full.segments) |-> [full.segments[i] EXCEPT !.hasStart = FALSE]]]}

\* outputs with a text and no segment: the segment list is absent or it is empty
UnsegmentedData ==
    {[d EXCEPT !.hasSegments = present, !.segments = <<>>] :
        d \in {Composed(nPad, <<"api">>, nTech, 0, nFill, <<"50", SP, "years">>, 0, 0) :
                  nPad \in PadCounts, nTech \in {0, 2}, nFill \in FillCounts},
        present \in BOOLEAN}

\* a transcriber that failed: exit code 1 and no output
FailedData ==
    [exitCode |-> 1, hasText |-> FALSE, text |-> <<>>, hasSegments |-> FALSE,
     segments |-> <<>>]

\* the values of req.body.field
Bodies ==
    {<<>>, <<"java">>, <<SP, "JAVA", SP>>, <<"Senior", SP, "Java", SP, "developer">>,
     <<"javascript", SP, "internal">>, <<"senior", SP, "Intern">>}

\* String.prototype.trim
RECURSIVE Trim(_)
Trim(s) ==
    IF Len(s) = 0 THEN s
    ELSE IF s[1] \in WhiteSpace THEN Trim(Tail(s))
    ELSE IF s[Len(s)] \in WhiteSpace THEN Trim(SubSeq(s, 1, Len(s) - 1))
    ELSE s

-----------------------------------------------------------------------------
(* The two handlers: POST /api/analyze/video of server.js ("server") and the     *)
(* handler of api/analyze.js ("api")                                            *)

NoTranscription == [hasText |-> FALSE, text |-> <<>>, segments |-> <<>>]
NoFeatures == Features(<<>>)
NoResponse ==
    [status |-> 0, analysis |-> Raised, realTranscription |-> FALSE, wordCount |-> 0]

\* `(req.body.field || '').trim()` of server.js
ServerField(body) == Trim(body)

\* `fields.field?.[0] || 'general'` of api/analyze.js
ApiField(body) == IF Len(body) = 0 THEN <<"general">> ELSE body

\* no transcriber, polling loop or upload is at work
Idle ==
    /\ promise = [state |-> "pending", reason |-> None]
    /\ child = [state |-> "running", code |-> 0, stderr |-> 0]
    /\ timer = [state |-> "armed", elapsed |-> 0]
    /\ attempts = 0
    /\ uploaded = [exists |-> FALSE, unlinks |-> 0]
    /\ sent = <<>>

\* the request is parsed, the field is read and the transcriber is started
Init ==
    /\ pc = "received"
    /\ variant \in {"server", "api"}
    /\ field \in {IF variant = "server" THEN ServerField(b) ELSE ApiField(b) : b \in Bodies}
    /\ data \in ComposedData \cup ShortData \cup PartialData \cup UnsegmentedData
                \cup {ScenarioC, ScenarioTie, ScenarioCommas, FailedData}
    /\ transcription = NoTranscription
    /\ features = NoFeatures
    /\ analysis = Raised
    /\ response = NoResponse
    /\ Idle

\* the 'close' handler of transcribeVideoWithWhisper, exit code 0 and output parsed
WhisperClose ==
    /\ pc = "received"
    /\ variant = "server"
    /\ data.exitCode = 0
    /\ transcription' =
          [hasText |-> TRUE,
           text |-> IF data.hasSegments THEN JoinTexts(data.segments)
                    ELSE IF data.hasText THEN data.text ELSE <<>>,
           segments |-> IF data.hasSegments THEN data.segments ELSE <<>>]
    /\ pc' = "transcribed"
    /\ UNCHANGED <<variant, field, data, features, analysis, response>>
    /\ UNCHANGED <<whisperVars, pollVars, videoVars>>

\* the 'close' handler of transcribeVideoWithWhisper, exit code not 0: the promise
\* is rejected
WhisperReject ==
    /\ pc = "received"
    /\ variant = "server"
    /\ data.exitCode # 0
    /\ pc' = "failed"
    /\ UNCHANGED <<variant, field, data, transcription, features, analysis, response>>
    /\ UNCHANGED <<whisperVars, pollVars, videoVars>>

\* POST /api/analyze/video after the transcription: analysis, clean-up and response
AnalyzeVideo ==
    /\ pc = "transcribed"
    /\ variant = "server"
    /\ features' = Features(TextOrEmpty(transcription))
    /\ analysis' = analyzeRealTranscription(transcription, field)
    /\ response' = [status |-> 200, analysis |-> analysis', realTranscription |-> TRUE,
                    wordCount |-> SplitLength(transcription.text)]
    /\ pc' = "responded"
    /\ UNCHANGED <<variant, field, data, transcription>>
    /\ UNCHANGED <<whisperVars, pollVars, videoVars>>

\* the fallback rated 0, as the fallback of POST /api/analyze is
fallbackAnalysisRatedZero ==
    Result(0,
           <<[timestamp |-> <<"0", ":", "1", "5">>,
              text |-> <<"Audio transcription failed - ensure clear speech and good microphone quality">>],
             [timestamp |-> <<"0", ":", "4", "5">>,
              text |-> <<"Try recording in a quieter environment with better audio quality">>]>>,
           <<<<"Real transcription temporarily unavailable - check audio quality">>,
             <<"Ensure you are speaking clearly into the microphone">>,
             <<"Record in a quiet environment without background noise">>,
             <<"Try a shorter video (under 2 minutes) for better processing">>>>,
           <<"Video processing attempted but transcription failed: ",
             "Whisper failed with code ", "1",
             ". Please try again with clearer audio.">>)

\* the fallback analysis of POST /api/analyze/video (its summary ends with the
\* message of the error)
fallbackAnalysis ==
    Result(600,
           <<[timestamp |-> <<"0", ":", "1", "5">>,
              text |-> <<"Audio transcription failed - ensure clear speech and good microphone quality">>],
             [timestamp |-> <<"0", ":", "4", "5">>,
              text |-> <<"Try recording in a quieter environment with better audio quality">>]>>,
           <<<<"Real transcription temporarily unavailable - check audio quality">>,
             <<"Ensure you are speaking clearly into the microphone">>,
             <<"Record in a quiet environment without background noise">>,
             <<"Try a shorter video (under 2 minutes) for better processing">>>>,
           <<"Video processing attempted but transcription failed: ",
             "Whisper failed with code ", "1",
             ". Please try again with clearer audio.">>)

\* POST /api/analyze/video when the transcription was rejected
FallbackVideo ==
    /\ pc = "failed"
    /\ variant = "server"
    /\ response' = [status |-> 200, analysis |-> fallbackAnalysis,
                    realTranscription |-> FALSE, wordCount |-> 0]
    /\ pc' = "responded"
    /\ UNCHANGED <<variant, field, data, transcription, features, analysis>>
    /\ UNCHANGED <<whisperVars, pollVars, videoVars>>

\* getRealTranscription of api/analyze.js when the transcript is completed
ApiCompleted ==
    /\ pc = "received"
    /\ variant = "api"
    /\ data.exitCode = 0
    /\ transcription' =
          [hasText |-> TRUE,
           text |-> IF data.hasText THEN data.text ELSE <<>>,
           segments |-> IF data.hasSegments THEN data.segments ELSE <<>>]
    /\ pc' = "transcribed"
    /\ UNCHANGED <<variant, field, data, features, analysis, response>>
    /\ UNCHANGED <<whisperVars, pollVars, videoVars>>

\* the handler of api/analyze.js after the transcription: analysis, clean-up and response
AnalyzeSpeech ==
    /\ pc = "transcribed"
    /\ variant = "api"
    /\ features' = Features(TextOrEmpty(transcription))
    /\ analysis' = analyzeRealSpeech(transcription, field)
    /\ response' = [status |-> 200, analysis |-> analysis', realTranscription |-> TRUE,
                    wordCount |-> SplitLength(transcription.text)]
    /\ pc' = "responded"
    /\ UNCHANGED <<variant, field, data, transcription>>
    /\ UNCHANGED <<whisperVars, pollVars, videoVars>>

Next ==
    \/ WhisperClose
    \/ WhisperReject
    \/ AnalyzeVideo
    \/ FallbackVideo
    \/ ApiCompleted
    \/ AnalyzeSpeech

Spec == Init /\ [][Next]_vars

-----------------------------------------------------------------------------
(* The questions handlers: POST /api/questions of the production server      *)
(* (unnamed/part_001, "production") and of server.js ("render"), and the      *)
(* serverless handler of unnamed/part_003 ("serverless").  A question is a    *)
(* sequence of strings, like a tip.  A count is held in hundredths.           *)

Handlers == {"production", "render", "serverless"}

\* fallbackTemplates of the production server (unnamed/part_001)
fallbackTemplatesProduction(category) ==
    CASE category = "software" ->
            <<<<"Tell me about your experience with system design and architecture.">>,
              <<"How do you approach debugging a complex production issue?">>,
              <<"Describe a challenging technical problem you solved recently.">>,
              <<"How would you optimize a slow-performing database query?">>,
              <<"Explain your process for code reviews and maintaining code quality.">>,
              <<"How do you stay current with new technologies and programming languages?">>,
              <<"Describe a time you had to learn a new framework or technology quickly.">>,
              <<"How would you design a system to handle millions of concurrent users?">>,
              <<"Tell me about a time you disagreed with a technical decision.">>,
              <<"How do you handle technical debt in legacy codebases?">>>>
      [] category = "java" ->
            <<<<"Explain the difference between Java's heap and stack memory.">>,
              <<"How do you handle memory management and garbage collection in Java applications?">>,
              <<"Describe your experience with Java frameworks like Spring or Hibernate.">>,
              <<"How would you optimize Java application performance?">>,
              <<"Tell me about a complex Java multithreading problem you solved.">>,
              <<"How do you handle exception handling and error management in Java?">>,
              <<"Describe your approach to unit testing in Java applications.">>,
              <<"How would you design a RESTful API using Java and Spring Boot?">>,
              <<"Tell me about your experience with Java design patterns.">>,
              <<"How do you manage dependencies and build processes in Java projects?">>>>
      [] category = "intern" ->
            <<<<"Why are you interested in this internship opportunity?">>,
              <<"Tell me about a challenging project you worked on during your studies.">>,
              <<"How do you prioritize your tasks when working on multiple assignments?">>,
              <<"Describe a time you had to learn a new technology or skill quickly.">>,
              <<"How would you handle receiving constructive criticism on your work?">>,
              <<"Tell me about a team project where you had to collaborate with others.">>,
              <<"What programming languages or tools are you most comfortable with?">>,
              <<"Describe a problem you solved using creative thinking.">>,
              <<"How do you stay motivated when facing difficult challenges?">>,
              <<"Tell me about a time you made a mistake and how you handled it.">>>>

\* the generic templates of the production server, for a field no category matches
genericTemplates(fld) ==
    <<<<"Tell me about your most challenging project in ">> \o fld \o <<".">>,
      <<"How do you stay updated with trends and developments in ">> \o fld \o <<"?">>,
      <<"Describe a time you had to learn something new quickly for ">> \o fld \o <<".">>,
      <<"How do you handle pressure and tight deadlines in ">> \o fld \o <<"?">>,
      <<"Tell me about a mistake you made in ">> \o fld \o <<" and how you handled it.">>,
      <<"Describe your problem-solving approach for complex ">> \o fld \o <<" issues.">>,
      <<"How do you collaborate effectively with others in ">> \o fld \o <<" projects?">>,
      <<"What motivates you most about working in ">> \o fld \o <<"?">>,
      <<"How do you prioritize tasks when managing multiple ">> \o fld \o <<" projects?">>,
      <<"Tell me about a time you had to explain complex ">> \o fld \o <<" concepts to non-experts.">>>>

\* fallbackTemplates of POST /api/questions of server.js
fallbackTemplates(category) ==
    CASE category = "software" ->
            <<<<"Tell me about your experience with system design and architecture.">>,
              <<"How do you approach debugging a complex production issue?">>,
              <<"Describe a challenging technical problem you solved recently.">>,
              <<"How would you optimize a slow-performing database query?">>,
              <<"Explain your process for code reviews and maintaining code quality.">>>>
      [] category = "java" ->
            <<<<"Explain the difference between Java's heap and stack memory.">>,
              <<"How do you handle memory management and garbage collection in Java applications?">>,
              <<"Describe your experience with Java frameworks like Spring or Hibernate.">>,
              <<"How would you optimize Java application performance?">>,
              <<"Tell me about a complex Java multithreading problem you solved.">>>>
      [] category = "intern" ->
            <<<<"Why are you interested in this internship opportunity?">>,
              <<"Tell me about a challenging project you worked on during your studies.">>,
              <<"How do you prioritize your tasks when working on multiple assignments?">>,
              <<"Describe a time you had to learn a new technology or skill quickly.">>,
              <<"How would you handle receiving constructive criticism on your work?">>>>

\* premiumQuestions of the serverless handler (unnamed/part_003)
premiumQuestions(category) ==
    CASE category = "software" ->
            <<<<"Walk me through designing a scalable microservices architecture for a high-traffic e-commerce platform.">>,
              <<"Describe a time you identified and resolved a critical performance bottleneck in production. What was your methodology?">>,
              <<"How would you implement a real-time notification system that can handle millions of concurrent users?">>,
              <<"Tell me about your experience with database optimization. How do you approach query performance tuning?">>,
              <<"Explain how you would design a comprehensive monitoring and alerting system for distributed services.">>,
              <<"Describe a complex technical problem you solved that required collaboration across multiple teams.">>,
              <<"How do you approach technical debt management in a fast-paced development environment?">>,
              <<"Walk me through your process for conducting effective code reviews and maintaining code quality standards.">>,
              <<"Describe how you would implement CI/CD pipelines for a team of 20+ developers working on multiple services.">>,
              <<"Tell me about a time you had to make a critical architectural decision under tight deadlines.">>>>
      [] category = "java" ->
            <<<<"Explain the Java memory model and how it affects concurrent programming. Provide specific examples.">>,
              <<"How would you design a thread-safe caching mechanism in Java without using existing frameworks?">>,
              <<"Describe the differences between Spring Boot's auto-configuration and manual configuration. When would you use each?">>,
              <<"How would you implement a custom annotation processor in Java and what are the use cases?">>,
              <<"Explain how garbage collection works in Java 11+ and how you would tune it for a high-throughput application.">>,
              <<"Walk me through implementing the Observer pattern in Java and discuss its pros and cons.">>,
              <<"How would you handle transaction management in a Spring application with multiple data sources?">>,
              <<"Describe your approach to testing Spring Boot applications, including integration and unit tests.">>,
              <<"Explain the concept of reactive programming in Java and when you would choose it over traditional approaches.">>,
              <<"How would you implement a connection pool from scratch in Java and ensure it's production-ready?">>>>
      [] category = "intern" ->
            <<<<"Tell me about a personal or academic project you're most proud of and the technical challenges you overcame.">>,
              <<"How would you approach learning a completely new technology stack that our team uses?">>,
              <<"Describe a time you had to debug a complex issue in your code. Walk me through your process.">>,
              <<"How do you stay current with software development trends and best practices?">>,
              <<"Tell me about a time you received constructive feedback on your code. How did you respond?">>,
              <<"Describe your experience with version control systems like Git. How do you handle merge conflicts?">>,
              <<"How would you explain a complex technical concept to someone without a technical background?">>,
              <<"Tell me about a team project where you had to collaborate with others who had different skill levels.">>,
              <<"How do you approach breaking down a large, complex problem into manageable tasks?">>,
              <<"Describe your testing strategy for a new feature you're developing. How do you ensure quality?">>>>

\* the custom questions of the serverless handler, for a field no category matches
customQuestions(fld) ==
    <<<<"Describe the most challenging project you've worked on in ">> \o fld \o <<" and how you overcame obstacles.">>,
      <<"How do you stay current with the latest developments and best practices in ">> \o fld \o <<"?">>,
      <<"Tell me about a time you had to learn a new skill or technology quickly to complete a ">> \o fld \o <<" project.">>,
      <<"How would you explain complex ">> \o fld \o <<" concepts to stakeholders without technical backgrounds?">>,
      <<"Describe your problem-solving methodology when facing difficult ">> \o fld \o <<" challenges.">>,
      <<"How do you ensure quality and accuracy in your ">> \o fld \o <<" work? What processes do you follow?">>,
      <<"Tell me about a time you had to collaborate with cross-functional teams on a ">> \o fld \o <<" project.">>,
      <<"How do you prioritize multiple ">> \o fld \o <<" projects with competing deadlines and requirements?">>,
      <<"Describe a mistake you made in ">> \o fld \o <<" work and what you learned from the experience.">>,
      <<"What emerging trends or technologies in ">> \o fld \o <<" are you most excited about and why?">>>>

\* String.prototype.includes of a keyword given as lexemes; a keyword of one word is
\* looked for inside the words of s, one of several words as it stands
IncludesKeyword(s, keyword) ==
    IF Len(keyword) = 1 THEN Includes(s, keyword[1])
    ELSE \E i \in 1..Len(s) : \A j \in 1..Len(keyword) : At(s, i + j - 1) = keyword[j]

\* the categories in the order in which each handler tests them, each with its keywords
fieldMappings(handler) ==
    CASE handler = "production" ->
            <<[category |-> "intern",
               keywords |-> {<<"intern">>, <<"internship">>, <<"trainee">>,
                             <<"entry", SP, "level">>, <<"entry", "-", "level">>,
                             <<"student">>, <<"graduate">>}],
              [category |-> "java",
               keywords |-> {<<"java">>, <<"jvm">>, <<"spring">>, <<"hibernate">>}],
              [category |-> "software",
               keywords |-> {<<"software">>, <<"developer">>, <<"programmer">>,
                             <<"engineer">>, <<"coding">>, <<"programming">>,
                             <<"backend">>, <<"frontend">>, <<"fullstack">>,
                             <<"web", SP, "development">>}]>>
      [] handler = "render" ->
            <<[category |-> "java", keywords |-> {<<"java">>}],
              [category |-> "intern", keywords |-> {<<"intern">>}]>>
      [] handler = "serverless" ->
            <<[category |-> "intern",
               keywords |-> {<<"intern">>, <<"entry">>, <<"student">>, <<"graduate">>}],
              [category |-> "java",
               keywords |-> {<<"java">>, <<"spring">>, <<"jvm">>, <<"hibernate">>}],
              [category |-> "software",
               keywords |-> {<<"software">>, <<"developer">>, <<"engineer">>,
                             <<"programming">>, <<"backend">>, <<"frontend">>}]>>

\* the category of the first entry of the handler's list that has a keyword in the
\* field; without one, "software" in server.js and "generic" in the other two
SelectedCategory(handler, fld) ==
    LET fieldLower == ToLowerCase(fld)
        mappings == fieldMappings(handler)
        matching == {k \in 1..Len(mappings) :
                        \E keyword \in mappings[k].keywords :
                            IncludesKeyword(fieldLower, keyword)}
    IN  IF matching = {}
        THEN (IF handler = "render" THEN "software" ELSE "generic")
        ELSE mappings[CHOOSE k \in matching : \A l \in matching : k <= l].category

\* the templates of a category in a handler
Templates(handler, category, fld) ==
    CASE handler = "production" ->
            IF category = "generic" THEN genericTemplates(fld)
            ELSE fallbackTemplatesProduction(category)
      [] handler = "render" -> fallbackTemplates(category)
      [] handler = "serverless" ->
            IF category = "generic" THEN customQuestions(fld)
            ELSE premiumQuestions(category)

\* selectedTemplates: the templates of the category the field selects
selectedTemplates(handler, fld) == Templates(handler, SelectedCategory(handler, fld), fld)

\* a number as JavaScript holds it: NaN or a value, in hundredths
NaN == [nan |-> TRUE, value |-> 0]
Num(hundredths) == [nan |-> FALSE, value |-> hundredths]

\* Number(count): undefined and a string that is no number give NaN
NumberOf(count) == IF count.kind = "number" THEN Num(count.value) ELSE NaN

\* Math.max(1, Math.min(20, n)): NaN stays NaN
ClampCount(n) == IF n.nan THEN NaN ELSE Num(Max(100, Min(2000, n.value)))

\* the effective count: `Math.max(1, Math.min(20, Number(req.body.count) || 7))` of the
\* two servers, and `count = 5` with `Math.max(1, Math.min(20, Number(count)))` of
\* the serverless handler
EffectiveCount(handler, count) ==
    IF handler = "serverless"
    THEN ClampCount(IF count.kind = "undefined" THEN Num(500) ELSE NumberOf(count))
    ELSE LET n == NumberOf(count)
         IN  ClampCount(IF n.nan \/ n.value = 0 THEN Num(700) ELSE n)

\* the integer slice(0, n) takes n as: NaN is 0 and a fraction is cut off
SliceEnd(n) == IF n.nan THEN 0 ELSE n.value \div 100

\* a >= Math.min(b, 3) of an integer a and a count b; false when b is NaN
AtLeastMinOfThree(a, b) == ~b.nan /\ 100 * a >= Min(b.value, 300)

\* the questions parsed from a reply of the language model that has n usable lines
ParsedQuestions(n) ==
    [i \in 1..n |-> <<"Generated question ">> \o IntToString(i) \o <<"?">>]

\* the questions the handler takes from the reply, or none if they are too few
AcceptedQuestions(handler, count, n) ==
    LET questions == IF handler = "serverless"
                     THEN Slice(ParsedQuestions(n), SliceEnd(count))
                     ELSE ParsedQuestions(n)
    IN  IF AtLeastMinOfThree(Len(questions), count)
        THEN Slice(questions, SliceEnd(count))
        ELSE <<>>

\* orders in which `sort(() => 0.5 - Math.random())` can leave n elements: the
\* rotations of the list and of its reverse
Orders(n) ==
    {[i \in 1..n |-> ((i - 1 + r) % n) + 1] : r \in 0..(n - 1)}
    \cup {[i \in 1..n |-> n - ((i - 1 + r) % n)] : r \in 0..(n - 1)}

\* the list in the given order
Shuffled(list, order) == [i \in 1..Len(list) |-> list[order[i]]]

MaxParsed == 4
MaxCount == 25

\* the values of req.body.count: absent, a string that is no number, and numbers
Counts ==
    {[kind |-> "undefined", value |-> 0], [kind |-> "string", value |-> 0]}
    \cup {[kind |-> "number", value |-> v] :
            v \in {-300, 0, 100, 200, 250, 300, 500, 600, 1000, 1100, 2000,
                   100 * MaxCount}}

\* the language model: no key, a failed call, or a reply with n usable lines
Replies ==
    {[key |-> FALSE, ok |-> FALSE, lines |-> 0], [key |-> TRUE, ok |-> FALSE, lines |-> 0]}
    \cup {[key |-> TRUE, ok |-> TRUE, lines |-> n] : n \in {0, 2, MaxParsed}}

\* the values of req.body.field of a questions request
QuestionBodies ==
    Bodies \cup {<<"Java", SP, "Intern">>, <<"student">>, <<"data", SP, "science">>,
                 <<"entry", SP, "level", SP, "spring">>, <<SP>>}

NoQuestions ==
    [status |-> 0, questions |-> <<>>, ai |-> FALSE, source |-> None,
     hasCounts |-> FALSE, requested |-> NaN, generated |-> 0]

\* a questions request is received and its field and count are read
InitQuestions ==
    /\ pc = "asked"
    /\ variant \in Handlers \cup {"routes"}
    /\ field \in {IF variant = "routes" THEN b ELSE Trim(b) : b \in QuestionBodies}
    /\ data \in [count : Counts, reply : Replies]
    /\ transcription = NoTranscription
    /\ features = NoFeatures
    /\ analysis = Raised
    /\ response = NoQuestions
    /\ Idle

\* `if (!field)`: 400, field is required
FieldRequired ==
    /\ pc = "asked"
    /\ Len(field) = 0
    /\ response' = [NoQuestions EXCEPT !.status = 400]
    /\ pc' = "answered"
    /\ UNCHANGED <<variant, field, data, transcription, features, analysis>>
    /\ UNCHANGED <<whisperVars, pollVars, videoVars>>

\* the reply of the language model has enough questions: they are returned
QuestionsGenerated ==
    /\ pc = "asked"
    /\ variant \in Handlers
    /\ Len(field) > 0
    /\ data.reply.key /\ data.reply.ok
    /\ LET count == EffectiveCount(variant, data.count)
           questions == AcceptedQuestions(variant, count, data.reply.lines)
       IN  /\ Len(questions) > 0
           /\ response' =
                 [status |-> 200, questions |-> questions, ai |-> TRUE,
                  source |-> IF variant = "serverless" THEN "cohere-chat-api"
                             ELSE "cohere-chat",
                  hasCounts |-> variant # "render",
                  requested |-> IF variant = "render" THEN NaN ELSE count,
                  generated |-> IF variant = "render" THEN 0 ELSE Len(questions)]
    /\ pc' = "answered"
    /\ UNCHANGED <<variant, field, data, transcription, features, analysis>>
    /\ UNCHANGED <<whisperVars, pollVars, videoVars>>

\* no key, a failed call or too few questions: the templates of the selected
\* category are shuffled and the first `count` of them are returned
QuestionsFallback ==
    /\ pc = "asked"
    /\ variant \in Handlers
    /\ Len(field) > 0
    /\ LET count == EffectiveCount(variant, data.count)
           templates == selectedTemplates(variant, field)
       IN  /\ ~(data.reply.key /\ data.reply.ok
                  /\ Len(AcceptedQuestions(variant, count, data.reply.lines)) > 0)
           /\ \E order \in Orders(Len(templates)) :
                 LET questions == Slice(Shuffled(templates, order), SliceEnd(count))
                 IN  response' =
                       [status |-> 200, questions |-> questions, ai |-> FALSE,
                        source |-> IF variant = "serverless" THEN "premium-templates"
                                   ELSE "fallback",
                        hasCounts |-> variant # "render",
                        requested |-> IF variant = "render" THEN NaN ELSE count,
                        generated |-> IF variant = "render" THEN 0 ELSE Len(questions)]
    /\ pc' = "answered"
    /\ UNCHANGED <<variant, field, data, transcription, features, analysis>>
    /\ UNCHANGED <<whisperVars, pollVars, videoVars>>

\* the three templates of routes/generateQuestions.js
routeTemplates(fld) ==
    <<<<"Tell me about a challenging project in ">> \o fld \o <<".">>,
      <<"How do you keep up with best practices in ">> \o fld \o <<"?">>,
      <<"Describe a time you resolved a conflict within your team.">>>>

\* routes/generateQuestions.js with Cohere enabled and a call that returns: the
\* usable lines of the reply, at most n of them, are the questions
RoutesGenerated ==
    /\ pc = "asked"
    /\ variant = "routes"
    /\ Len(field) > 0
    /\ data.reply.key /\ data.reply.ok
    /\ LET n == EffectiveCount(variant, data.count)
           questions == Slice(ParsedQuestions(data.reply.lines), SliceEnd(n))
       IN  response' =
             [status |-> 200, questions |-> questions, ai |-> TRUE, source |-> None,
              hasCounts |-> FALSE, requested |-> NaN, generated |-> 0]
    /\ pc' = "answered"
    /\ UNCHANGED <<variant, field, data, transcription, features, analysis>>
    /\ UNCHANGED <<whisperVars, pollVars, videoVars>>

\* routes/generateQuestions.js when genQuestionsWithCohere throws (Cohere disabled or
\* the call fails): the first n of the three templates
RoutesFallback ==
    /\ pc = "asked"
    /\ variant = "routes"
    /\ Len(field) > 0
    /\ ~(data.reply.key /\ data.reply.ok)
    /\ LET n == EffectiveCount(variant, data.count)
       IN  response' =
             [status |-> 200, questions |-> Slice(routeTemplates(field), SliceEnd(n)),
              ai |-> data.reply.key, source |-> None,
              hasCounts |-> FALSE, requested |-> NaN, generated |-> 0]
    /\ pc' = "answered"
    /\ UNCHANGED <<variant, field, data, transcription, features, analysis>>
    /\ UNCHANGED <<whisperVars, pollVars, videoVars>>

NextQuestions ==
    \/ FieldRequired
    \/ QuestionsGenerated
    \/ QuestionsFallback
    \/ RoutesGenerated
    \/ RoutesFallback

SpecQuestions == InitQuestions /\ [][NextQuestions]_vars

-----------------------------------------------------------------------------
(* The promise of transcribeVideoWithWhisper and of transcribeWithWhisper     *)
(* (server.js): the handlers of the child's 'close' and 'error' events and   *)
(* the timer.  Time is counted in minutes.                                   *)

Transcribers == {"transcribeVideoWithWhisper", "transcribeWithWhisper"}

\* the delay of the setTimeout of each transcriber, in minutes
TimeoutMinutes(transcriber) == IF transcriber = "transcribeVideoWithWhisper" THEN 5 ELSE 3

\* a later call of resolve or reject takes the place of the first
SettleLastWins(p, outcome) == outcome

\* resolve or reject called on a promise: only the first call settles it
Settle(p, outcome) == IF p.state = "pending" THEN outcome ELSE p

Resolved == [state |-> "resolved", reason |-> None]
Rejected(reason) == [state |-> "rejected", reason |-> reason]

\* what the 'close' handler calls: resolve for code 0 and an output that is there and
\* parses, reject otherwise; a child ended by a signal has code null
onClose(code, signalled, output) ==
    IF ~signalled /\ code = 0
    THEN (IF output = "parsed" THEN Resolved
          ELSE IF output = "missing" THEN Rejected("Transcription output file not found")
          ELSE Rejected("Failed to parse transcription"))
    ELSE Rejected("Whisper failed")

\* the outputs a child that exits with code 0 can leave: the first transcriber reads a
\* file, which may be missing, the second one the standard output
Outputs(transcriber) ==
    IF transcriber = "transcribeVideoWithWhisper" THEN {"parsed", "missing", "garbled"}
    ELSE {"parsed", "garbled"}

\* the promise is created: the child is spawned and the timer is set
InitWhisper ==
    /\ pc = "transcribing"
    /\ variant \in Transcribers
    /\ field = <<>>
    /\ data = FailedData
    /\ transcription = NoTranscription
    /\ features = NoFeatures
    /\ analysis = Raised
    /\ response = NoResponse
    /\ Idle

\* a minute passes while the timer is pending
Tick ==
    /\ timer.state = "armed"
    /\ timer.elapsed < TimeoutMinutes(variant)
    /\ timer' = [timer EXCEPT !.elapsed = @ + 1]
    /\ UNCHANGED <<pc, variant, field, data, transcription, features, analysis, response>>
    /\ UNCHANGED <<promise, child, pollVars, videoVars>>

MaxChunks == 2

\* 'data' of the child's standard error: the chunk is added to stderr
StderrData ==
    /\ child.state = "running"
    /\ child.stderr < MaxChunks
    /\ child' = [child EXCEPT !.stderr = @ + 1]
    /\ UNCHANGED <<pc, variant, field, data, transcription, features, analysis, response>>
    /\ UNCHANGED <<promise, timer, pollVars, videoVars>>

\* 'close' of a child that ran to its end, with its exit code
ChildClose ==
    /\ child.state = "running"
    /\ \E code \in {0, 1} : \E output \in Outputs(variant) :
          /\ child' = [child EXCEPT !.state = "closed", !.code = code]
          /\ promise' = Settle(promise, onClose(code, FALSE, output))
    /\ UNCHANGED <<pc, variant, field, data, transcription, features, analysis, response>>
    /\ UNCHANGED <<timer, pollVars, videoVars>>

\* 'error': the child could not be spawned
ChildError ==
    /\ child.state = "running"
    /\ timer.elapsed = 0
    /\ child' = [child EXCEPT !.state = "failed"]
    /\ promise' = Settle(promise, Rejected("Failed to start Whisper"))
    /\ UNCHANGED <<pc, variant, field, data, transcription, features, analysis, response>>
    /\ UNCHANGED <<timer, pollVars, videoVars>>

\* 'close' after 'error' or after the kill: the code is not 0
LateClose ==
    /\ child.state \in {"failed", "killed"}
    /\ child' = [child EXCEPT !.state = "closed", !.code = 1]
    /\ promise' = Settle(promise, onClose(1, child.state = "killed", "garbled"))
    /\ UNCHANGED <<pc, variant, field, data, transcription, features, analysis, response>>
    /\ UNCHANGED <<timer, pollVars, videoVars>>

\* the timer fires: pythonProcess.kill() and reject; the timer is never cleared, so it
\* fires whatever became of the child
Timeout ==
    /\ timer.state = "armed"
    /\ timer.elapsed = TimeoutMinutes(variant)
    /\ timer' = [timer EXCEPT !.state = "fired"]
    /\ child' = IF child.state = "running" THEN [child EXCEPT !.state = "killed"] ELSE child
    /\ promise' = Settle(promise, Rejected("Whisper transcription timeout"))
    /\ UNCHANGED <<pc, variant, field, data, transcription, features, analysis, response>>
    /\ UNCHANGED <<pollVars, videoVars>>

NextWhisper ==
    \/ Tick
    \/ StderrData
    \/ ChildClose
    \/ ChildError
    \/ LateClose
    \/ Timeout

SpecWhisper == InitWhisper /\ [][NextWhisper]_vars

\* the event loop runs the timer: time passes and a timer that is due fires
FairSpecWhisper == SpecWhisper /\ WF_vars(Tick) /\ WF_vars(Timeout)

-----------------------------------------------------------------------------
(* getRealTranscription of api/analyze.js: the upload, the transcription     *)
(* request and the polling loop                                              *)

maxAttempts == 100

\* the statuses of a transcript of the transcription service
Statuses == {"queued", "processing", "completed", "error"}

\* the loop goes on while attempts is at most maxAttempts
ContinuePollingInclusive(status, n) ==
    status \in {"processing", "queued"} /\ n <= maxAttempts

\* the condition of the do-while loop, tested after attempts++
ContinuePolling(status, n) ==
    status \in {"processing", "queued"} /\ n < maxAttempts

\* what getRealTranscription gives back: a transcript, an object with an error, or
\* an exception that leaves the function
Transcript == [hasError |-> FALSE, error |-> None, thrown |-> FALSE]
ErrorObject(message) == [hasError |-> TRUE, error |-> message, thrown |-> FALSE]
Thrown(message) == [hasError |-> FALSE, error |-> message, thrown |-> TRUE]

\* the catch clause: an exception of the try block becomes an object with an error
Caught(outcome) == IF outcome.thrown THEN ErrorObject(outcome.error) ELSE outcome

\* the statements after the loop
AfterPolling(status) ==
    IF status = "completed" THEN Transcript
    ELSE IF status = "error" THEN Thrown("Transcription failed")
    ELSE Thrown("Transcription timed out")

NoResult == [hasError |-> FALSE, error |-> None, thrown |-> FALSE]

\* getRealTranscription is called
InitPolling ==
    /\ pc = "called"
    /\ variant = "getRealTranscription"
    /\ field = <<>>
    /\ data = [status |-> None, requests |-> 0]
    /\ transcription = NoTranscription
    /\ features = NoFeatures
    /\ analysis = Raised
    /\ response = NoResult
    /\ Idle

\* no key: an object with an error is returned at once
NoApiKey ==
    /\ pc = "called"
    /\ response' = ErrorObject("No transcription API key configured")
    /\ pc' = "returned"
    /\ UNCHANGED <<variant, field, data, transcription, features, analysis>>
    /\ UNCHANGED <<whisperVars, pollVars, videoVars>>

\* the upload or the transcription request fails: the exception is caught
RequestFails ==
    /\ pc = "called"
    /\ \E message \in {"Upload failed", "Transcription request failed"} :
          response' = Caught(Thrown(message))
    /\ pc' = "returned"
    /\ UNCHANGED <<variant, field, data, transcription, features, analysis>>
    /\ UNCHANGED <<whisperVars, pollVars, videoVars>>

\* the upload and the transcription request succeed: the loop is entered
StartPolling ==
    /\ pc = "called"
    /\ pc' = "polling"
    /\ UNCHANGED <<variant, field, data, transcription, features, analysis, response>>
    /\ UNCHANGED <<whisperVars, pollVars, videoVars>>

\* one turn of the loop whose status request fails: the exception is caught
PollFails ==
    /\ pc = "polling"
    /\ data' = [data EXCEPT !.requests = @ + 1]
    /\ response' = Caught(Thrown("Polling failed"))
    /\ pc' = "returned"
    /\ UNCHANGED <<variant, field, transcription, features, analysis>>
    /\ UNCHANGED <<whisperVars, pollVars, videoVars>>

\* one turn of the loop: the status is requested, attempts is incremented and the
\* condition is tested; when it fails the statements after the loop return
Poll ==
    /\ pc = "polling"
    /\ \E status \in Statuses :
          /\ data' = [status |-> status, requests |-> data.requests + 1]
          /\ attempts' = attempts + 1
          /\ IF ContinuePolling(status, attempts')
             THEN pc' = "polling" /\ response' = response
             ELSE pc' = "returned" /\ response' = Caught(AfterPolling(status))
    /\ UNCHANGED <<variant, field, transcription, features, analysis>>
    /\ UNCHANGED <<whisperVars, videoVars>>

NextPolling ==
    \/ NoApiKey
    \/ RequestFails
    \/ StartPolling
    \/ PollFails
    \/ Poll

SpecPolling == InitPolling /\ [][NextPolling]_vars

-----------------------------------------------------------------------------
(* POST /api/analyze/video of server.js with its uploaded file: the paths    *)
(* of the handler, the deletion of the file and the responses sent           *)

\* the clean-up left out
CleanupLeftOut(file, fails) == file

\* `if (fs.existsSync(videoPath)) fs.unlinkSync(videoPath)` inside its own try: the
\* file is gone afterwards unless the unlink fails
Cleanup(file, fails) ==
    IF file.exists
    THEN [exists |-> fails, unlinks |-> file.unlinks + 1]
    ELSE file

\* the messages with which the promise of the transcriber is rejected
Rejections ==
    {"Whisper failed with code 1", "Failed to start Whisper",
     "Failed to parse transcription", "Whisper transcription timeout (5 minutes)"}

\* the fallback analysis, its summary made with the message of the error
fallbackAnalysisFor(message) ==
    [fallbackAnalysis EXCEPT !.summary =
        <<"Video processing attempted but transcription failed: ", message,
          ". Please try again with clearer audio.">>]

\* a response as it is sent
Sent(status, body) ==
    [status |-> status, analysis |-> body.analysis,
     realTranscription |-> body.realTranscription, wordCount |-> body.wordCount]

\* a request arrives: multer has stored the file, if there is one
InitVideo ==
    /\ pc = "received"
    /\ variant = "server"
    /\ field \in {ServerField(b) : b \in Bodies}
    /\ data \in [file : BOOLEAN, fieldIsString : BOOLEAN, unlinkFails : BOOLEAN,
                  rejection : Rejections \cup {None},
                  heard : {ScenarioC, ScenarioTie, Heard(<<<<"um">>>>)}]
    /\ transcription = NoTranscription
    /\ features = NoFeatures
    /\ analysis = Raised
    /\ response = NoResponse
    /\ promise = [state |-> "pending", reason |-> None]
    /\ child = [state |-> "running", code |-> 0, stderr |-> 0]
    /\ timer = [state |-> "armed", elapsed |-> 0]
    /\ attempts = 0
    /\ uploaded = [exists |-> data.file, unlinks |-> 0]
    /\ sent = <<>>

\* `if (!req.file)`: 400
VideoRequired ==
    /\ pc = "received"
    /\ data.fieldIsString
    /\ ~data.file
    /\ response' = [NoResponse EXCEPT !.status = 400]
    /\ sent' = Append(sent, Sent(400, NoResponse))
    /\ pc' = "responded"
    /\ UNCHANGED <<variant, field, data, transcription, features, analysis>>
    /\ UNCHANGED <<whisperVars, pollVars, uploaded>>

\* the field is not a string and trim throws: the outer catch unlinks the file, if
\* there is one, and sends 500
AnalysisFailed ==
    /\ pc = "received"
    /\ ~data.fieldIsString
    /\ uploaded' = IF data.file
                   THEN [exists |-> uploaded.exists /\ data.unlinkFails,
                         unlinks |-> uploaded.unlinks + 1]
                   ELSE uploaded
    /\ response' = [NoResponse EXCEPT !.status = 500]
    /\ sent' = Append(sent, Sent(500, NoResponse))
    /\ pc' = "responded"
    /\ UNCHANGED <<variant, field, data, transcription, features, analysis>>
    /\ UNCHANGED <<whisperVars, pollVars>>

\* the transcriber is called and the handler awaits its promise
AwaitTranscription ==
    /\ pc = "received"
    /\ data.fieldIsString
    /\ data.file
    /\ pc' = "transcribing"
    /\ UNCHANGED <<variant, field, data, transcription, features, analysis, response>>
    /\ UNCHANGED <<whisperVars, pollVars, videoVars>>

\* the promise is resolved: analysis, clean-up and response
VideoAnalysed ==
    /\ pc = "transcribing"
    /\ data.rejection = None
    /\ promise' = Settle(promise, Resolved)
    /\ transcription' =
          [hasText |-> TRUE,
           text |-> IF data.heard.hasSegments THEN JoinTexts(data.heard.segments)
                    ELSE IF data.heard.hasText THEN data.heard.text ELSE <<>>,
           segments |-> IF data.heard.hasSegments THEN data.heard.segments ELSE <<>>]
    /\ features' = Features(TextOrEmpty(transcription'))
    /\ analysis' = analyzeRealTranscription(transcription', field)
    /\ uploaded' = Cleanup(uploaded, data.unlinkFails)
    /\ response' = [status |-> 200, analysis |-> analysis', realTranscription |-> TRUE,
                    wordCount |-> SplitLength(transcription'.text)]
    /\ sent' = Append(sent, Sent(200, response'))
    /\ pc' = "responded"
    /\ UNCHANGED <<variant, field, data, child, timer, pollVars>>

\* the promise is rejected: fallback analysis, clean-up and response
VideoFallback ==
    /\ pc = "transcribing"
    /\ data.rejection # None
    /\ promise' = Settle(promise, Rejected(data.rejection))
    /\ uploaded' = Cleanup(uploaded, data.unlinkFails)
    /\ response' = [status |-> 200, analysis |-> fallbackAnalysisFor(data.rejection),
                    realTranscription |-> FALSE, wordCount |-> 0]
    /\ sent' = Append(sent, Sent(200, response'))
    /\ pc' = "responded"
    /\ UNCHANGED <<variant, field, data, transcription, features, analysis>>
    /\ UNCHANGED <<child, timer, pollVars>>

NextVideo ==
    \/ VideoRequired
    \/ AnalysisFailed
    \/ AwaitTranscription
    \/ VideoAnalysed
    \/ VideoFallback

SpecVideo == InitVideo /\ [][NextVideo]_vars

-----------------------------------------------------------------------------
(* Properties                                                              *)

\* a response that carries the analysis of a transcription
Analysed == pc = "responded" /\ response.realTranscription

\* the number of non-empty tokens of the text split on runs of whitespace
NonEmptyTokens(text) ==
    Cardinality({i \in 1..Len(text) :
        text[i] \notin WhiteSpace /\ At(text, i - 1) \in WhiteSpace \cup {None}})

\* sub occurs in s
Contains(s, sub) ==
    \E i \in 1..(Len(s) - Len(sub) + 1) : SubSeq(s, i, i + Len(sub) - 1) = sub

\* a timestamp of the form M:SS
IsTimestamp(ts) ==
    LET digit == {DigitChars[d] : d \in 1..10}
    IN  /\ Len(ts) >= 4
        /\ ts[Len(ts) - 2] = ":"
        /\ ts[Len(ts) - 1] \in digit
        /\ ts[Len(ts)] \in digit
        /\ \A i \in 1..(Len(ts) - 3) : ts[i] \in digit

\* the fixed "no speech detected" result of each handler
NoSpeechResult ==
    IF variant = "server" THEN
        Result(0,
               <<[timestamp |-> <<"0", ":", "0", "5">>,
                  text |-> <<"No meaningful speech detected - ensure microphone is working and speak clearly">>]>>,
               <<<<"Check microphone permissions in your browser">>,
                 <<"Speak directly into the microphone during recording">>,
                 <<"Record in a quiet environment without background noise">>,
                 <<"Ensure you are actually speaking during the recording">>>>,
               <<"No speech content detected for analysis. Please record again with clear audio.">>)
    ELSE
        Result(0,
               <<[timestamp |-> <<"0", ":", "0", "5">>,
                  text |-> <<"No meaningful speech detected - please speak clearly into the microphone">>]>>,
               <<<<"Ensure you are actually speaking during the recording">>,
                 <<"Check microphone permissions and audio levels">>,
                 <<"Speak clearly and at normal volume">>,
                 <<"Record in a quiet environment">>>>,
               <<"No speech content detected for analysis. Please record again with clear audio.">>)

\* C1: a transcript whose text has fewer than 5 non-empty whitespace-delimited tokens
\* gets, for every field, the fixed "no speech detected" result: rating 0, one fixed
\* mistake, four fixed tips, the fixed summary.
C1_FewTokensNoSpeech ==
    (Analysed /\ NonEmptyTokens(transcription.text) < 5) => analysis = NoSpeechResult

\* C2 as stated: with 5 <= wordCount < 20 the rating is 2, there are one mistake and
\* four tips, and the text of the mistake and the summary contain the word count.
C2_BriefMistakeHasCount ==
    (Analysed /\ features.wordCount >= 5 /\ features.wordCount < 20) =>
        /\ analysis.rating = 200
        /\ Len(analysis.mistakes) = 1
        /\ Len(analysis.tips) = 4
        /\ Contains(analysis.mistakes[1].text, IntToString(features.wordCount))
        /\ Contains(analysis.summary, IntToString(features.wordCount))

\* C2 amended: with 5 <= wordCount < 20 the rating is 2, there are one mistake and four
\* tips, the text of the mistake is the fixed "Response too brief" sentence, which does
\* not contain the word count, and the summary contains the word count.
C2_BriefSummaryHasCount ==
    (Analysed /\ features.wordCount >= 5 /\ features.wordCount < 20) =>
        /\ analysis.rating = 200
        /\ Len(analysis.mistakes) = 1
        /\ Len(analysis.tips) = 4
        /\ analysis.mistakes[1].text =
              <<"Response too brief - provide more detailed answers with specific examples">>
        /\ ~Contains(analysis.mistakes[1].text, IntToString(features.wordCount))
        /\ Contains(analysis.summary, IntToString(features.wordCount))

C2_Witness ==
    /\ Analysed
    /\ features.wordCount = 19
    /\ analysis.rating = 200
    /\ Contains(analysis.summary, <<"1", "9">>)

\* C3: with wordCount >= 20 the rating is a multiple of 0.5 between 1 and 9.
C3_RatingOnGrid ==
    (Analysed /\ features.wordCount >= 20) =>
        /\ analysis.rating % 50 = 0
        /\ analysis.rating >= 100
        /\ analysis.rating <= 900

\* the upper limit is applied: the bonuses add up to more than 9
C3_Witness ==
    /\ Analysed
    /\ features.wordCount >= 20
    /\ RawRating(features, field, transcription.text) > 900
    /\ analysis.rating = 900

\* C4: every result, of the degenerate branches, of the general branch and of the
\* fallback, has at most 3 mistakes and at most 5 tips.
C4_ListsCapped ==
    pc = "responded" =>
        /\ Len(response.analysis.mistakes) <= 3
        /\ Len(response.analysis.tips) <= 5

\* four conditions for a mistake hold and three mistakes are returned
C4_Witness ==
    /\ Analysed
    /\ features.wordCount >= 20
    /\ Len(Mistakes(features, field, <<"1", ":", "1", "5">>)) > 3
    /\ Len(analysis.mistakes) = 3
    /\ Len(analysis.tips) = 5

\* a transcript as the interface describes it: text a string, every segment with
\* 0 <= start <= end
WellFormed(tr) ==
    /\ tr.hasText
    /\ \A i \in 1..Len(tr.segments) :
          /\ tr.segments[i].hasStart
          /\ 0 <= tr.segments[i].start
          /\ tr.segments[i].start <= tr.segments[i].end

\* C6: for a well-formed transcript the analyser does not raise; the rating is a
\* number, every mistake has a timestamp of the form M:SS and a text, every tip and
\* the summary are strings.
C6_WellFormedResult ==
    (Analysed /\ WellFormed(transcription)) =>
        /\ ~analysis.raised
        /\ analysis.rating \in Nat
        /\ \A i \in 1..Len(analysis.mistakes) :
              /\ IsTimestamp(analysis.mistakes[i].timestamp)
              /\ Len(analysis.mistakes[i].text) > 0
        /\ \A i \in 1..Len(analysis.tips) : Len(analysis.tips[i]) > 0
        /\ Len(analysis.summary) > 0

\* the filler mistake takes its timestamp from a segment that starts less than 10
\* seconds after a full minute, so that the seconds are padded
C6_Witness ==
    /\ Analysed
    /\ WellFormed(transcription)
    /\ features.wordCount >= 20
    /\ 15 * features.fillerWords > features.wordCount
    /\ Len(transcription.segments) > 0
    /\ LET ts == analysis.mistakes[1].timestamp IN ts[Len(ts) - 1] = "0"

\* C7: every analysis the video endpoint of server.js returns has a rating between 1
\* and 10.
C7_RatingOneToTen ==
    (pc = "responded" /\ variant = "server") =>
        /\ response.analysis.rating >= 100
        /\ response.analysis.rating <= 1000

\* C8: the wordCount of the analyser is the number of non-empty tokens of the text
\* split on runs of whitespace.
C8_WordCountIsTokens ==
    Analysed => features.wordCount = NonEmptyTokens(transcription.text)

\* 1 when the condition holds, else 0
Ind(b) == IF b THEN 1 ELSE 0

\* s contains key, whatever the case
ContainsIgnoringCase(s, key) == \E i \in 1..Len(s) : LowerItem(s[i]) \in SuperStrings(key)

\* the sum of the base rating and the earned bonuses, in hundredths
ReferenceSum(f, fld, text) ==
    400 + 100 * Ind(f.wordCount > 50) + 50 * Ind(f.wordCount > 100)
        + 100 * Ind(f.technicalTerms > 2) + 50 * Ind(f.technicalTerms > 5)
        + 100 * Ind(f.confidenceWords > 2) + 50 * Ind(f.confidenceWords > 4)
        + 100 * Ind(f.specificMetrics > 0) + 50 * Ind(f.specificMetrics > 2)
        + 50 * Ind(20 * f.fillerWords < f.wordCount)
        + 50 * Ind(f.questionWords > 0)
        + 50 * Ind(ContainsIgnoringCase(fld, "senior") /\ f.technicalTerms > 4)
        + 50 * Ind(ContainsIgnoringCase(fld, "intern") /\ f.confidenceWords > 1)
        + 50 * Ind(ContainsIgnoringCase(fld, "java") /\ ContainsIgnoringCase(text, "java"))

\* C9: with wordCount >= 20 the rating is the reference sum limited to [1, 9].
C9_RatingIsReference ==
    (Analysed /\ features.wordCount >= 20) =>
        LET sum == ReferenceSum(features, field, transcription.text)
        IN  analysis.rating = (IF sum > 900 THEN 900 ELSE IF sum < 100 THEN 100 ELSE sum)

\* a field in capitals earns the senior and the java bonus and the sum stays below 9
C9_Witness ==
    /\ Analysed
    /\ features.wordCount >= 20
    /\ field = <<"Senior", SP, "Java", SP, "developer">>
    /\ features.technicalTerms > 4
    /\ ContainsIgnoringCase(transcription.text, "java")
    /\ analysis.rating < 900
    /\ analysis.rating = ReferenceSum(features, <<>>, <<>>) + 100

\* C10: scenario C is rated exactly 9, and so is every transcript of 20 words or more
\* whose base rating and bonuses add up to 9 or more.
C10_NineAtTheTop ==
    /\ (Analysed /\ data = ScenarioC /\ field = <<"java">>) =>
           features.wordCount = 60 /\ analysis.rating = 900
    /\ (Analysed /\ features.wordCount >= 20
            /\ ReferenceSum(features, field, transcription.text) >= 900) =>
           analysis.rating = 900

C10_Witness ==
    /\ Analysed
    /\ data = ScenarioC
    /\ field = <<"java">>
    /\ features.technicalTerms = 6
    /\ features.confidenceWords = 5
    /\ features.fillerWords = 0
    /\ analysis.rating = 900

\* the filler mistake: the one whose text starts with "Reduce filler words ("
IsFillerMistake(m) == Len(m.text) > 0 /\ m.text[1] = "Reduce filler words ("

\* the general branch of the analyser was taken and gave a result
General == Analysed /\ ~analysis.raised /\ features.wordCount >= 20

\* C11: with wordCount >= 20, more filler words than wordCount/15 and a segment list
\* that is empty or absent, the first mistake is the filler mistake and its timestamp
\* is exactly "1:15".
C11_NoSegmentsQuarterPastOne ==
    (General /\ 15 * features.fillerWords > features.wordCount
        /\ Len(transcription.segments) = 0) =>
        /\ Len(analysis.mistakes) >= 1
        /\ IsFillerMistake(analysis.mistakes[1])
        /\ analysis.mistakes[1].timestamp = <<"1", ":", "1", "5">>

\* the transcriber of server.js gave a text and no segment list, and the filler
\* mistake is the first of several
C11_Witness ==
    /\ General
    /\ variant = "server"
    /\ ~data.hasSegments
    /\ Len(transcription.segments) = 0
    /\ 15 * features.fillerWords > features.wordCount
    /\ Len(analysis.mistakes) > 1
    /\ IsFillerMistake(analysis.mistakes[1])
    /\ analysis.mistakes[1].timestamp = <<"1", ":", "1", "5">>

\* the conditions for a mistake, in the order of the rule list
MistakeKinds == <<"filler", "metrics", "terminology", "confidence", "brevity">>

\* the condition of the given kind holds of the features
Triggered(f, kind) ==
    CASE kind = "filler" -> 15 * f.fillerWords > f.wordCount
      [] kind = "metrics" -> f.specificMetrics = 0 /\ f.wordCount > 30
      [] kind = "terminology" -> f.technicalTerms < 2 /\ f.wordCount > 30
      [] kind = "confidence" -> f.confidenceWords < 2 /\ f.wordCount > 40
      [] kind = "brevity" -> f.wordCount < 40

\* the kind of a mistake, read from its text
KindOf(m) ==
    CASE m.text[1] = "Reduce filler words (" -> "filler"
      [] m.text[1] = "Include specific metrics and quantifiable achievements in your examples"
            -> "metrics"
      [] m.text[1] = "Use more "
            /\ m.text[Len(m.text)] = "-specific technical terminology to demonstrate expertise"
            -> "terminology"
      [] m.text[1] = "Use more confident, achievement-oriented language when describing your experience"
            -> "confidence"
      [] m.text[1] = "Provide more comprehensive responses with detailed examples and context"
            -> "brevity"
      [] OTHER -> "other"

\* the first three, or all if fewer, of the kinds whose condition holds
FirstThreeTriggered(f) ==
    LET triggered == SelectSeq(MistakeKinds, LAMBDA kind : Triggered(f, kind))
    IN  SubSeq(triggered, 1, IF Len(triggered) < 3 THEN Len(triggered) ELSE 3)

\* C12: with wordCount >= 20 the mistakes are the first three (or all, if fewer) of the
\* triggered conditions in the order filler, metrics, terminology, confidence,
\* brevity; when the first three conditions all trigger, neither the confidence nor
\* the brevity mistake appears, triggered or not.
C12_FirstThreeInOrder ==
    General =>
        /\ [i \in 1..Len(analysis.mistakes) |-> KindOf(analysis.mistakes[i])]
              = FirstThreeTriggered(features)
        /\ (\A k \in 1..3 : Triggered(features, MistakeKinds[k])) =>
              \A i \in 1..Len(analysis.mistakes) :
                  KindOf(analysis.mistakes[i]) \notin {"confidence", "brevity"}

\* the first three conditions and the one for confidence hold, and the confidence
\* mistake is dropped
C12_Witness ==
    /\ General
    /\ \A k \in 1..4 : Triggered(features, MistakeKinds[k])
    /\ Len(analysis.mistakes) = 3
    /\ KindOf(analysis.mistakes[3]) = "terminology"

\* the four tips that follow the recap in the result of server.js
ServerTipsAfterRecap(f, fld) ==
    <<IF f.technicalTerms > 3
      THEN <<"Excellent technical vocabulary usage detected">>
      ELSE <<"Include more ">> \o fld \o <<"-specific technical concepts and terminology">>,
      IF f.confidenceWords > 2
      THEN <<"Strong confident communication style observed">>
      ELSE <<"Practice using more achievement-focused language">>,
      IF f.specificMetrics > 0
      THEN <<"Good use of quantifiable results in your response">>
      ELSE <<"Always include specific numbers and measurable outcomes">>,
      IF 25 * f.fillerWords < f.wordCount
      THEN <<"Clear, fluent speech patterns detected">>
      ELSE <<"Practice reducing filler words for more professional delivery">>>>

\* C13: with wordCount >= 20, analyzeRealTranscription of server.js returns five tips:
\* one recap with the word count, the technical-term count and the confidence-word
\* count, then the technical tip, the confidence tip, the metric tip and, fifth and
\* last, the filler tip, each the praise or the corrective string by its threshold.
C13_ServerTipsInOrder ==
    (General /\ variant = "server") =>
        /\ Len(analysis.tips) = 5
        /\ Contains(analysis.tips[1], IntToString(features.wordCount))
        /\ Contains(analysis.tips[1], <<" technical terms">>)
        /\ Contains(analysis.tips[1], <<" confidence indicators">>)
        /\ SubSeq(analysis.tips, 2, 5) = ServerTipsAfterRecap(features, field)

\* the value of a decimal digit character
DigitValue(c) == CHOOSE v \in 0..9 : DigitChars[v + 1] = c

\* the natural number a sequence of digit characters denotes
RECURSIVE ReadNat(_)
ReadNat(cs) ==
    IF Len(cs) = 0 THEN 0
    ELSE 10 * ReadNat(SubSeq(cs, 1, Len(cs) - 1)) + DigitValue(cs[Len(cs)])

\* the number, in hundredths, that decimal characters with at most two decimals denote
ReadHundredths(cs) ==
    IF \E i \in 1..Len(cs) : cs[i] = "."
    THEN LET i == CHOOSE k \in 1..Len(cs) : cs[k] = "."
             decimals == SubSeq(cs, i + 1, Len(cs))
         IN  100 * ReadNat(SubSeq(cs, 1, i - 1))
             + (IF Len(decimals) = 1 THEN 10 ELSE 1) * ReadNat(decimals)
    ELSE 100 * ReadNat(cs)

\* the characters of the number the summary prints before "/10. "
PrintedRating(summary) ==
    LET numeric == {DigitChars[v] : v \in 1..10} \cup {"."}
        j == CHOOSE k \in 1..Len(summary) : summary[k] = "/10. "
        i == CHOOSE k \in 1..(j - 1) :
                 /\ summary[k] \notin numeric
                 /\ \A l \in (k + 1)..(j - 1) : summary[l] \in numeric
    IN  SubSeq(summary, i + 1, j - 1)

\* the closing sentences of each handler: strong performance, good foundation, needs
\* improvement
ClosingSentences ==
    IF variant = "server"
    THEN <<"Strong interview performance with clear technical communication based on your actual speech content.",
           "Good foundation with specific areas for improvement identified from your real response.",
           "Focus on the recommended areas to significantly enhance your interview performance.">>
    ELSE <<"Strong interview performance with clear technical communication.",
           "Good foundation with specific areas for improvement based on actual speech content.",
           "Focus on the identified areas to significantly enhance interview performance.">>

\* C14: with wordCount >= 20 the summary closes with the strong-performance sentence
\* iff rating >= 7, with the good-foundation sentence iff 5 <= rating < 7 and with the
\* needs-improvement sentence otherwise, and the number it prints before "/10" is the
\* returned rating.
C14_ClosingByRating ==
    General =>
        LET closing == analysis.summary[Len(analysis.summary)]
        IN  /\ closing \in {ClosingSentences[k] : k \in 1..3}
            /\ closing = ClosingSentences[1] <=> analysis.rating >= 700
            /\ closing = ClosingSentences[2] <=>
                   (analysis.rating >= 500 /\ analysis.rating < 700)
            /\ closing = ClosingSentences[3] <=> analysis.rating < 500
            /\ ReadHundredths(PrintedRating(analysis.summary)) = analysis.rating

\* a rating of exactly 7, printed as "7", closes with the strong-performance sentence
C14_Witness ==
    /\ General
    /\ analysis.rating = 700
    /\ PrintedRating(analysis.summary) = <<"7">>
    /\ analysis.summary[Len(analysis.summary)] = ClosingSentences[1]

\* C15: with the field, the text (and so whether it contains "java") and every other
\* count held fixed and wordCount >= 20, a technicalTermCount in 0..3 raised to a larger
\* value in 0..3 never lowers the rating, and one lowered never raises it.
C15_MoreTermsNotLower ==
    (General /\ features.technicalTerms \in 0..3) =>
        \A t \in 0..3 :
            LET other == Rating([features EXCEPT !.technicalTerms = t], field,
                                transcription.text)
            IN  /\ t > features.technicalTerms => other >= analysis.rating
                /\ t < features.technicalTerms => other <= analysis.rating

\* two technical terms, and a third one would earn the bonus of 1
C15_Witness ==
    /\ General
    /\ features.technicalTerms = 2
    /\ analysis.rating < 800
    /\ Rating([features EXCEPT !.technicalTerms = 3], field, transcription.text)
          = analysis.rating + 100
    /\ Rating([features EXCEPT !.technicalTerms = 0], field, transcription.text)
          = analysis.rating

\* the text has a run of digits with a bare % after it that is followed by whitespace
\* or by the end of the text
BarePercent(text) ==
    \E i \in 1..Len(text) :
        /\ text[i] \in Digits
        /\ At(text, i + 1) = PCT
        /\ At(text, i + 2) \in WhiteSpace \cup {None}

\* C16: a number with a bare % that is followed by whitespace or the end of the text
\* is counted as a specific metric, so a transcript with wordCount >= 20 that has one
\* earns the metric bonus of 1 on the base of 4 and, with wordCount > 30, has no
\* 'include specific metrics' mistake.
C16_BarePercentCounted ==
    (General /\ BarePercent(transcription.text)) =>
        /\ features.specificMetrics >= 1
        /\ analysis.rating >= 500
        /\ \A i \in 1..Len(analysis.mistakes) : KindOf(analysis.mistakes[i]) # "metrics"

\* the order of the specification: limited to [1, 9] first, then rounded to the
\* nearest 0.5, in hundredths
ClampThenRound(rating) ==
    LET clamped == IF rating > 900 THEN 900 ELSE IF rating < 100 THEN 100 ELSE rating
    IN  ((2 * clamped + 50) \div 100) * 50

\* C17: for every raw score the rule list gives (wordCount >= 20), the rating of the
\* code, rounded to the nearest 0.5 and then limited to [1, 9], is the rating the
\* specification's order gives, limited first and rounded second.
C17_RoundLimitOrder ==
    General =>
        analysis.rating = ClampThenRound(RawRating(features, field, transcription.text))

\* a raw score of 10 or more, where the limit changes the value that is rounded
C17_Witness ==
    /\ General
    /\ RawRating(features, field, transcription.text) >= 1000
    /\ RawRating(features, field, transcription.text) % 100 = 50
    /\ analysis.rating = 900
    /\ ClampThenRound(RawRating(features, field, transcription.text)) = 900

\* the position of the colon in a timestamp
ColonAt(ts) == CHOOSE k \in 1..Len(ts) : ts[k] = ":"

\* C18: when the filler mistake is emitted for a well-formed transcript of n >= 1
\* segments, its timestamp is made of the start s of the segment at index floor(n/2):
\* the minutes are floor(s / 60), the seconds floor(s mod 60) in two digits, between
\* 00 and 59; and the percentage in its text is a nearest integer to
\* 100 * fillerWordCount / wordCount.
C18_MidpointTimestamp ==
    (General /\ WellFormed(transcription) /\ Len(transcription.segments) >= 1
        /\ 15 * features.fillerWords > features.wordCount) =>
        LET n == Len(transcription.segments)
            s == transcription.segments[(n \div 2) + 1].start
            m == analysis.mistakes[1]
            colon == ColonAt(m.timestamp)
            minutes == SubSeq(m.timestamp, 1, colon - 1)
            seconds == SubSeq(m.timestamp, colon + 1, Len(m.timestamp))
            percent == ReadNat(SubSeq(m.text, 2, Len(m.text) - 1))
            error == 100 * features.fillerWords - percent * features.wordCount
        IN  /\ IsFillerMistake(m)
            /\ ReadNat(minutes) = s \div 60000
            /\ Len(seconds) = 2
            /\ ReadNat(seconds) = (s % 60000) \div 1000
            /\ ReadNat(seconds) \in 0..59
            /\ 2 * error <= features.wordCount
            /\ -2 * error <= features.wordCount

\* the segment in the middle starts more than a minute into the recording
C18_Witness ==
    /\ General
    /\ WellFormed(transcription)
    /\ Len(transcription.segments) >= 3
    /\ 15 * features.fillerWords > features.wordCount
    /\ transcription.segments[(Len(transcription.segments) \div 2) + 1].start > 60000
    /\ IsFillerMistake(analysis.mistakes[1])
    /\ analysis.mistakes[1].timestamp[1] = "1"

\* a response made of template questions
FallbackAnswer == pc = "answered" /\ response.status = 200 /\ ~response.ai

\* the categories of the handler's list that have a keyword in the field
CategoriesMatched(handler, fld) ==
    LET mappings == fieldMappings(handler)
    IN  {mappings[k].category : k \in
            {l \in 1..Len(mappings) :
                \E keyword \in mappings[l].keywords :
                    IncludesKeyword(ToLowerCase(fld), keyword)}}

\* the elements of a sequence
Range(seq) == {seq[i] : i \in 1..Len(seq)}

\* C19: the fallback questions all come from the templates of one category, the first
\* in the handler's order that has a keyword in the field, and a field with keywords
\* of both the intern and the java category selects the same category in every
\* questions handler.
C19_OneOrderEverywhere ==
    FallbackAnswer =>
        /\ \E category \in {"intern", "java", "software", "generic"} :
              /\ Range(response.questions) \subseteq Range(Templates(variant, category, field))
              /\ category = SelectedCategory(variant, field)
        /\ (\A handler \in Handlers :
                {"intern", "java"} \subseteq CategoriesMatched(handler, field)) =>
              \A handler \in Handlers :
                  SelectedCategory(handler, field) = SelectedCategory(variant, field)

\* no two elements of the sequence are equal
PairwiseDistinct(seq) ==
    \A i \in 1..Len(seq) : \A j \in 1..Len(seq) : i # j => seq[i] # seq[j]

\* C20: a fallback response of the two servers has exactly the requested number of
\* questions, which is a whole number from 1 to 20, all pairwise distinct, and its
\* 'generated' field, where it has one, equals its 'requested' field.
C20_FallbackCountExact ==
    (FallbackAnswer /\ variant \in {"production", "render"}) =>
        LET count == EffectiveCount(variant, data.count)
        IN  /\ ~count.nan
            /\ count.value \in {100 * n : n \in 1..20}
            /\ 100 * Len(response.questions) = count.value
            /\ PairwiseDistinct(response.questions)
            /\ response.hasCounts =>
                  /\ ~response.requested.nan
                  /\ 100 * response.generated = response.requested.value

\* C21: the promise of a transcriber is eventually settled; once it is settled no
\* later event ('close' after the kill, the timer after a 'close') changes its
\* outcome; and a timer that fires while the promise is pending kills the child and
\* rejects the promise with the timeout error.
C21_SettlesOnce ==
    /\ <>(promise.state # "pending")
    /\ [][promise.state # "pending" => promise' = promise]_vars
    /\ [][(timer.state = "armed" /\ timer'.state = "fired" /\ promise.state = "pending") =>
            /\ promise' = Rejected("Whisper transcription timeout")
            /\ child.state = "running" /\ child'.state = "killed"]_vars

\* the child was killed by the timer and its 'close' has been handled since: the
\* promise is still rejected with the timeout error
C21_Witness ==
    /\ pc = "transcribing"
    /\ timer.state = "fired"
    /\ child.state = "closed"
    /\ child.code = 1
    /\ promise = Rejected("Whisper transcription timeout")

C23_FileGoneAfterResponse ==
    (variant = "server" /\ data.file /\ Len(sent) > 0) =>
        /\ ~data.unlinkFails => ~uploaded.exists
        /\ uploaded.exists => uploaded.unlinks > 0

\* the transcription failed, the fallback was sent and the file has been deleted
C23_Witness ==
    /\ variant = "server"
    /\ data.file
    /\ data.rejection # None
    /\ ~data.unlinkFails
    /\ Len(sent) = 1
    /\ sent[1].status = 200
    /\ ~sent[1].realTranscription
    /\ uploaded = [exists |-> FALSE, unlinks |-> 1]

\* C24: when the transcription fails the endpoint sends exactly one response, with
\* status 200, realTranscription false and the fallback analysis rated 6, and the
\* scorer is not called; a 500 is sent only for a failure outside the transcription
\* and the analysis.
C24_FallbackOnFailure ==
    /\ (pc = "responded" /\ variant = "server" /\ promise.state = "rejected") =>
          /\ Len(sent) = 1
          /\ sent[1].status = 200
          /\ ~sent[1].realTranscription
          /\ sent[1].analysis.rating = 600
          /\ sent[1].analysis.mistakes = fallbackAnalysisRatedZero.mistakes
          /\ sent[1].analysis.tips = fallbackAnalysisRatedZero.tips
          /\ analysis = Raised
          /\ features = NoFeatures
    /\ \A i \in 1..Len(sent) :
          sent[i].status = 500 => (promise.state = "pending" /\ ~data.fieldIsString)

\* the transcriber timed out and the fallback was sent
C24_Witness ==
    /\ pc = "responded"
    /\ variant = "server"
    /\ promise = Rejected("Whisper transcription timeout (5 minutes)")
    /\ Len(sent) = 1
    /\ sent[1].status = 200
    /\ sent[1].analysis.rating = 600
    /\ analysis = Raised

\* C25: in every questions handler and for every value of 'count' (missing, zero,
\* negative, fractional, not a number, above 20) the effective count is a number from
\* 1 to 20, and every response with status 200 for a non-empty field has at least one
\* question and at most 20.
C25_CountInRange ==
    (pc = "answered" /\ response.status = 200 /\ Len(field) > 0) =>
        LET count == EffectiveCount(variant, data.count)
        IN  /\ ~count.nan
            /\ count.value >= 100
            /\ count.value <= 2000
            /\ Len(response.questions) >= 1
            /\ Len(response.questions) <= 20

\* C26: with wordCount >= 20 the rating is at least 4: the lower limit of 1 is never
\* what decides it, no rating from 1 to 3.5 is returned by the general branch, and the
\* needs-improvement sentence closes the summary only for the ratings 4 and 4.5.
C26_RatingAtLeastFour ==
    General =>
        LET rounded == MathRound(2 * RawRating(features, field, TextOrEmpty(transcription)), 100) * 50
            closing == analysis.summary[Len(analysis.summary)]
        IN  /\ analysis.rating >= 400
            /\ rounded > 100
            /\ analysis.rating = Min(900, rounded)
            /\ closing = ClosingSentences[3] => analysis.rating \in {400, 450}

\* a transcript of 20 words or more that earns no bonus: rating 4, needs improvement
C26_Witness ==
    /\ General
    /\ analysis.rating = 400
    /\ analysis.summary[Len(analysis.summary)] = ClosingSentences[3]

\* the strings of the filler tip: praise (both analysers) and the corrective one
FillerPraise == {<<"Clear, fluent speech patterns detected">>, <<"Clear, fluent speech patterns">>}
FillerCorrective == <<"Practice reducing filler words for more professional delivery">>

\* the rating before rounding holds the +0.5 for clear speech: it is 0.5 above the
\* rating of the same features with as many fillers as words
ClearSpeechBonusApplied ==
    RawRating(features, field, transcription.text)
        = RawRating([features EXCEPT !.fillerWords = features.wordCount],
                    field, transcription.text) + 50

\* C27: in every result with wordCount >= 20 the three filler thresholds agree: when
\* the filler mistake is present (filler > wc/15) the clear-speech bonus (filler <
\* wc/20) was not applied and a filler tip that is present is the corrective one; when
\* the filler tip is the praise (filler < wc/25) the bonus was applied and there is no
\* filler mistake.
C27_FillerThresholdsAgree ==
    General =>
        LET mistake == \E k \in 1..Len(analysis.mistakes) : IsFillerMistake(analysis.mistakes[k])
            praise == \E k \in 1..Len(analysis.tips) : analysis.tips[k] \in FillerPraise
        IN  /\ mistake <=> 15 * features.fillerWords > features.wordCount
            /\ praise => 25 * features.fillerWords < features.wordCount
            /\ mistake => ~ClearSpeechBonusApplied /\ ~praise
            /\ praise => ClearSpeechBonusApplied /\ ~mistake

\* a result that holds both the filler mistake and the corrective filler tip
C27_Witness ==
    /\ General
    /\ \E k \in 1..Len(analysis.mistakes) : IsFillerMistake(analysis.mistakes[k])
    /\ \E k \in 1..Len(analysis.tips) : analysis.tips[k] = FillerCorrective
    /\ ~ClearSpeechBonusApplied

\* the number the filler mistake prints before "% of speech"
PrintedPercent(m) == ReadNat(SubSeq(m.text, 2, Len(m.text) - 1))

\* C28: for every text the analyser's fillerWordCount is at most its wordCount, so the
\* percentage printed in the filler mistake is an integer from 0 to 100, also when
\* the filler words are separated by punctuation and not by spaces ("um,uh,like").
C28_FillersWithinWords ==
    (Analysed /\ ~analysis.raised) =>
        /\ features.fillerWords <= features.wordCount
        /\ \A k \in 1..Len(analysis.mistakes) :
               IsFillerMistake(analysis.mistakes[k]) =>
                   PrintedPercent(analysis.mistakes[k]) \in 0..100

====
